---- MODULE Spec2Model ----
(***************************************************************************)
(* Gameweek scoring and finalization of the fantasy-sports application.    *)
(*                                                                         *)
(* The state is the content of the relational tables the stored procedures *)
(* of supabase/migrations/20250617131830_sweet_frog.sql read and write.    *)
(* Every stored procedure is one action: a PL/pgSQL function runs inside   *)
(* the transaction of the statement that calls it.                         *)
(*                                                                         *)
(* SQL leaves some results open: the row a SELECT ... INTO takes when      *)
(* several rows match, the row a LIMIT 1 takes among equal sort keys, the  *)
(* numbers ROW_NUMBER() gives to rows with equal sort keys, the order in   *)
(* which a FOR ... IN SELECT without ORDER BY visits its rows.  Each of    *)
(* these is modelled as the set of the outcomes it can have.               *)
(***************************************************************************)
EXTENDS Integers, Sequences, FiniteSets, TLC

VARIABLES
    rosters,                       \* table rosters: set of rows
    gameweek_scores,               \* table gameweek_scores: set of rows
    fantasy_teams,                 \* table fantasy_teams: fantasy_team_id -> row
    fantasy_team_gameweek_points,  \* table fantasy_team_gameweek_points: set of rows
    gameweeks,                     \* table gameweeks: gameweek_number -> row
    last,                          \* the last procedure call and what it returned
    calls,                         \* number of finalize_gameweek calls made so far
    real_matches,                  \* table real_matches: set of rows
    gameweeks_timed,               \* table gameweeks of 20250616110333_dry_wave.sql
    now,                           \* NOW() of the database clock
    console,                       \* state of the GameweekManager component
    leagues,                       \* table leagues: name -> row
    hook,                          \* state of the useGameweek hook
    sessions                       \* database sessions running finalize_gameweek

tables == <<rosters, gameweek_scores, fantasy_teams,
            fantasy_team_gameweek_points, gameweeks>>
\* what the scoring engine and the finalizer neither read nor write
others == <<real_matches, gameweeks_timed, now, console, leagues, hook, sessions>>
vars == <<rosters, gameweek_scores, fantasy_teams,
          fantasy_team_gameweek_points, gameweeks, last, calls,
          real_matches, gameweeks_timed, now, console, leagues, hook, sessions>>

----------------------------------------------------------------------------
(* Bounds of the model *)

\* finalize_gameweek calls in one behaviour (total_points grows with each)
MaxCalls == 2
\* gameweek numbers 1..MaxGameweek are passed to the procedures; the gameweeks
\* table of the finalizer's specification holds all of them but the last
MaxGameweek == 3

----------------------------------------------------------------------------
(* Values *)

\* SQL NULL of a uuid column (player_id, league_id)
NULL == "NULL"
\* SQL NULL of the integer column rank_in_league: ROW_NUMBER() starts at 1,
\* so 0 is never a rank
NullRank == 0

Players == {"p1", "p2", "p3", "p4"}
Teams == {"t1", "t2", "t3"}
Leagues == {"L1", "L2"}
GameweekNumbers == 1..MaxGameweek
Statuses == {"upcoming", "active", "locked", "finalized"}

\* table players, column position: reference data no procedure writes
players == [p \in Players |-> IF p = "p4" THEN "DEF" ELSE "MID"]

RosterRow(t, p, starter, captain, vice) ==
    [fantasy_team_id |-> t, player_id |-> p, is_starter |-> starter,
     is_captain |-> captain, is_vice_captain |-> vice]

\* a row of gameweek_scores: one per player and gameweek, with minutes_played
\* and total_points set (a player without a row is the missing-record case)
ScoreRow(p, g, minutes, points) ==
    [player_id |-> p, gameweek |-> g, minutes_played |-> minutes,
     total_points |-> points]

\* the call recorded in last; arg is the p_status of set_gameweek_status
Call(op, t, g, result, error, contrib) ==
    [op |-> op, team |-> t, gameweek |-> g, result |-> result,
     error |-> error, contrib |-> contrib, arg |-> NULL]

NoCall == Call("none", NULL, 0, 0, FALSE, <<>>)

\* a row of gameweeks (gameweek_id, a serial no procedure reads, is left out)
GameweekRow(start_date, end_date, status) ==
    [start_date |-> start_date, end_date |-> end_date, status |-> status]

\* the component before it is mounted
NoConsole == [mounted |-> FALSE]

\* the table leagues left out of a specification
NoLeagues == <<>>

\* the hook before a component uses it
NoHook == [mounted |-> FALSE]

\* no session is connected
NoSessions == <<>>

----------------------------------------------------------------------------
(* Sets and sums *)

Max(S) == CHOOSE x \in S : \A y \in S : y <= x

\* all orders in which the rows of S can be visited
Orders(S) ==
    {f \in [1..Cardinality(S) -> S] : \A i, j \in 1..Cardinality(S) : f[i] = f[j] => i = j}

----------------------------------------------------------------------------
(* Scoring engine *)

ScoresOf(p, g) == {gs \in gameweek_scores : gs.player_id = p /\ gs.gameweek = g}

\* COALESCE(gs.total_points, 0) of the LEFT JOIN on gameweek_scores
PlayerPoints(p, g) ==
    IF ScoresOf(p, g) = {} THEN 0 ELSE (CHOOSE gs \in ScoresOf(p, g) : TRUE).total_points

\* COALESCE(gs.minutes_played, 0) of the LEFT JOIN on gameweek_scores
MinutesPlayed(p, g) ==
    IF ScoresOf(p, g) = {} THEN 0 ELSE (CHOOSE gs \in ScoresOf(p, g) : TRUE).minutes_played

\* the rows get_auto_substitute selects from: bench rows of the team, of the
\* position asked for, joined to a score row of the gameweek with minutes > 0
SubstituteCandidates(t, g, pos) ==
    {r \in rosters :
        /\ r.fantasy_team_id = t
        /\ r.is_starter = FALSE
        /\ players[r.player_id] = pos
        /\ \E gs \in ScoresOf(r.player_id, g) : gs.minutes_played > 0}

\* get_auto_substitute with ORDER BY total_points ASC
get_auto_substitute_ascending(t, g, pos) ==
    LET cand == SubstituteCandidates(t, g, pos)
        worst == 0 - Max({0 - PlayerPoints(r.player_id, g) : r \in cand})
    IN  IF cand = {} THEN {NULL}
        ELSE {r.player_id : r \in {c \in cand : PlayerPoints(c.player_id, g) = worst}}

\* get_auto_substitute: the ids ORDER BY total_points DESC LIMIT 1 can return,
\* NULL when no row is selected
get_auto_substitute(t, g, pos) ==
    LET cand == SubstituteCandidates(t, g, pos)
        best == Max({PlayerPoints(r.player_id, g) : r \in cand})
    IN  IF cand = {} THEN {NULL}
        ELSE {r.player_id : r \in {c \in cand : PlayerPoints(c.player_id, g) = best}}

\* SELECT player_id INTO captain_id ... WHERE is_captain = true
CaptainIds(t) ==
    LET c == {r.player_id : r \in {x \in rosters : x.fantasy_team_id = t /\ x.is_captain}}
    IN  IF c = {} THEN {NULL} ELSE c

\* SELECT player_id INTO vice_captain_id ... WHERE is_vice_captain = true
ViceCaptainIds(t) ==
    LET c == {r.player_id : r \in {x \in rosters : x.fantasy_team_id = t /\ x.is_vice_captain}}
    IN  IF c = {} THEN {NULL} ELSE c

\* the rows of the FOR loop: starters of the team
Starters(t) == {r \in rosters : r.fantasy_team_id = t /\ r.is_starter}

\* the values substitute_id can take for one starter row
SubstituteIds(r, g) ==
    IF MinutesPlayed(r.player_id, g) = 0
    THEN get_auto_substitute(r.fantasy_team_id, g, players[r.player_id])
    ELSE {NULL}

\* the substitution block with the sign of the points lost
SubstitutedPoints_negated(r, g, substitute_id) ==
    IF MinutesPlayed(r.player_id, g) = 0 /\ substitute_id # NULL
    THEN 0 - PlayerPoints(substitute_id, g)
    ELSE PlayerPoints(r.player_id, g)

\* player_record.player_points after the substitution block
SubstitutedPoints(r, g, substitute_id) ==
    IF MinutesPlayed(r.player_id, g) = 0 /\ substitute_id # NULL
    THEN PlayerPoints(substitute_id, g)
    ELSE PlayerPoints(r.player_id, g)

\* the declared variables of calculate_fantasy_team_points; contrib records
\* the player_points each starter row added (not a variable of the code)
StartAcc == [total_points |-> 0, captain_points |-> 0, vice_captain_points |-> 0,
             contrib |-> <<>>]

\* the iteration with the captain's points taken before the substitution
StarterStep_before_substitution(acc, r, g, captain_id, vice_captain_id, substitute_id) ==
    LET player_points == SubstitutedPoints(r, g, substitute_id)
    IN  [total_points |-> acc.total_points + player_points,
         captain_points |->
            IF r.player_id = captain_id THEN PlayerPoints(r.player_id, g)
            ELSE acc.captain_points,
         vice_captain_points |->
            IF r.player_id # captain_id /\ r.player_id = vice_captain_id
            THEN PlayerPoints(r.player_id, g) ELSE acc.vice_captain_points,
         contrib |-> acc.contrib @@ (r.player_id :> player_points)]

\* one iteration of the FOR loop
StarterStep(acc, r, g, captain_id, vice_captain_id, substitute_id) ==
    LET player_points == SubstitutedPoints(r, g, substitute_id)
    IN  [total_points |-> acc.total_points + player_points,
         captain_points |->
            IF r.player_id = captain_id THEN player_points ELSE acc.captain_points,
         vice_captain_points |->
            IF r.player_id # captain_id /\ r.player_id = vice_captain_id
            THEN player_points ELSE acc.vice_captain_points,
         contrib |-> acc.contrib @@ (r.player_id :> player_points)]

\* the FOR loop over the rows in the order given: the set of final accumulators
RECURSIVE StarterLoop(_, _, _, _, _)
StarterLoop(rows, acc, g, captain_id, vice_captain_id) ==
    IF rows = <<>> THEN {acc}
    ELSE UNION {StarterLoop(Tail(rows),
                            StarterStep(acc, Head(rows), g, captain_id,
                                        vice_captain_id, s),
                            g, captain_id, vice_captain_id)
                : s \in SubstituteIds(Head(rows), g)}

\* the multiplier with IF ... END IF; IF ... in place of IF ... ELSIF
CaptainMultiplier_both(acc) ==
    acc.total_points
    + (IF acc.captain_points > 0 THEN acc.captain_points ELSE 0)
    + (IF acc.vice_captain_points > 0 THEN acc.vice_captain_points ELSE 0)

\* the captain multiplier and the RETURN
CaptainMultiplier(acc) ==
    IF acc.captain_points > 0 THEN acc.total_points + acc.captain_points
    ELSE IF acc.vice_captain_points > 0 THEN acc.total_points + acc.vice_captain_points
    ELSE acc.total_points

\* the accumulators calculate_fantasy_team_points can end its loop with
CalculateRuns(t, g) ==
    UNION {StarterLoop(rows, StartAcc, g, c, v)
           : rows \in Orders(Starters(t)), c \in CaptainIds(t), v \in ViceCaptainIds(t)}

\* calculate_fantasy_team_points: the totals it can return
calculate_fantasy_team_points(t, g) ==
    {CaptainMultiplier(acc) : acc \in CalculateRuns(t, g)}

----------------------------------------------------------------------------
(* Specification of the scoring engine alone: the roster of one team and    *)
(* the score rows of one gameweek are drawn from bounded sets, and          *)
(* calculate_fantasy_team_points is called on them.                         *)

\* rosters of team t1: p1 starts, p3 is on the bench, p2 and p4 either; the
\* captain and the vice-captain are any roster player or nobody
CalcRosters ==
    {{RosterRow("t1", p, IF p = "p1" THEN TRUE ELSE IF p = "p3" THEN FALSE
                         ELSE IF p = "p2" THEN s2 ELSE s4,
                p = c, p = v) : p \in Players}
     : s2 \in BOOLEAN, s4 \in BOOLEAN,
       c \in Players \cup {NULL}, v \in Players \cup {NULL}}

\* what the feed recorded for one player: nothing, or minutes and points
Recorded(minutes, points) ==
    [present |-> TRUE, minutes_played |-> minutes, total_points |-> points]
NotRecorded == [present |-> FALSE, minutes_played |-> 0, total_points |-> 0]

ScoreOptions ==
    {NotRecorded, Recorded(0, 0), Recorded(0, -1), Recorded(90, -1),
     Recorded(90, 5), Recorded(90, 8)}
ScoreOptionsDef == {NotRecorded, Recorded(0, -1), Recorded(90, 5)}

CalcScores ==
    {{ScoreRow(p, 1, f[p].minutes_played, f[p].total_points)
        : p \in {q \in Players : f[q].present}}
     : f \in {h \in [Players -> ScoreOptions] : h["p4"] \in ScoreOptionsDef}}

InitCalc ==
    /\ rosters \in CalcRosters
    /\ gameweek_scores \in CalcScores
    /\ fantasy_teams = [t \in {"t1"} |->
            [league_id |-> "L1", total_points |-> 0, gameweek_points |-> 0, rank |-> 1]]
    /\ fantasy_team_gameweek_points = {}
    /\ gameweeks = [g \in {1} |-> GameweekRow(1, 1, "upcoming")]
    /\ last = NoCall
    /\ calls = 0
    /\ real_matches = {}
    /\ gameweeks_timed = <<>>
    /\ now = 0
    /\ console = NoConsole
    /\ leagues = NoLeagues
    /\ hook = NoHook
    /\ sessions = NoSessions

\* SELECT calculate_fantasy_team_points(t, g)
CalculatePoints(t, g) ==
    /\ \E acc \in CalculateRuns(t, g) :
          last' = Call("calculate_fantasy_team_points", t, g,
                       CaptainMultiplier(acc), FALSE, acc.contrib)
    /\ UNCHANGED <<tables, calls, others>>

NextCalc == \E t \in DOMAIN fantasy_teams, g \in DOMAIN gameweeks : CalculatePoints(t, g)

SpecCalc == InitCalc /\ [][NextCalc]_vars

----------------------------------------------------------------------------
(* Specification of the scoring engine on rosters with any number of         *)
(* captain and vice-captain flags: is_captain and is_vice_captain are        *)
(* columns of each roster row.                                               *)

\* rosters of team t1: p1 and p2 start and p3 is on the bench; each starter
\* is flagged captain or not and vice-captain or not
CaptainRosters ==
    {{RosterRow("t1", "p1", TRUE, c1, v1), RosterRow("t1", "p2", TRUE, c2, v2),
      RosterRow("t1", "p3", FALSE, FALSE, FALSE)}
     : c1 \in BOOLEAN, c2 \in BOOLEAN, v1 \in BOOLEAN, v2 \in BOOLEAN}

\* p1 and p2 scored 5 or 8 or did not play; p3 has no record or scored 5
CaptainScores ==
    {{ScoreRow(p, 1, f[p].minutes_played, f[p].total_points)
        : p \in {q \in DOMAIN f : f[q].present}}
     : f \in {h \in [{"p1", "p2", "p3"} -> ScoreOptions] :
                 /\ h["p1"] \in {Recorded(0, 0), Recorded(90, 5), Recorded(90, 8)}
                 /\ h["p2"] \in {Recorded(0, 0), Recorded(90, 5), Recorded(90, 8)}
                 /\ h["p3"] \in {NotRecorded, Recorded(90, 5)}}}

InitCaptains ==
    /\ rosters \in CaptainRosters
    /\ gameweek_scores \in CaptainScores
    /\ fantasy_teams = [t \in {"t1"} |->
            [league_id |-> "L1", total_points |-> 0, gameweek_points |-> 0, rank |-> 1]]
    /\ fantasy_team_gameweek_points = {}
    /\ gameweeks = [g \in {1} |-> GameweekRow(1, 1, "upcoming")]
    /\ last = NoCall
    /\ calls = 0
    /\ real_matches = {}
    /\ gameweeks_timed = <<>>
    /\ now = 0
    /\ console = NoConsole
    /\ leagues = NoLeagues
    /\ hook = NoHook
    /\ sessions = NoSessions

SpecCaptains == InitCaptains /\ [][NextCalc]_vars

----------------------------------------------------------------------------
(* Gameweek finalizer *)

\* the tables finalize_gameweek writes, as it sees them while it runs
Db == [ft |-> fantasy_teams, ftgp |-> fantasy_team_gameweek_points, gw |-> gameweeks]

\* the existence check with its condition dropped
GameweekExists_unchecked(g) == TRUE

\* EXISTS (SELECT 1 FROM gameweeks WHERE gameweek_number = p_gameweek)
GameweekExists(g) == g \in DOMAIN gameweeks

\* the rows of SELECT fantasy_team_id, league_id FROM fantasy_teams
\* WHERE league_id IS NOT NULL
LeagueTeams(ft) == {t \in DOMAIN ft : ft[t].league_id # NULL}

\* the row INSERT INTO fantasy_team_gameweek_points (fantasy_team_id, gameweek,
\* points) adds: a fresh id (no row is ever deleted, so the number of rows
\* plus one is fresh) and rank_in_league NULL
PointsRow(ftgp, t, g, team_points) ==
    [id |-> Cardinality(ftgp) + 1, fantasy_team_id |-> t, gameweek |-> g,
     points |-> team_points, rank_in_league |-> NullRank]

\* the INSERT without its ON CONFLICT clause
UpsertPoints_insert(ftgp, t, g, team_points) ==
    ftgp \cup {PointsRow(ftgp, t, g, team_points)}

\* INSERT INTO fantasy_team_gameweek_points ... ON CONFLICT (fantasy_team_id,
\* gameweek) DO UPDATE SET points = EXCLUDED.points
UpsertPoints(ftgp, t, g, team_points) ==
    IF \E row \in ftgp : row.fantasy_team_id = t /\ row.gameweek = g
    THEN {IF row.fantasy_team_id = t /\ row.gameweek = g
          THEN [row EXCEPT !.points = team_points] ELSE row : row \in ftgp}
    ELSE ftgp \cup {PointsRow(ftgp, t, g, team_points)}

\* the UPDATE with total_points assigned in place of added to
UpdateTotals_assign(ft, t, team_points) ==
    [ft EXCEPT ![t].total_points = team_points, ![t].gameweek_points = team_points]

\* the UPDATE without gameweek_points = team_points
UpdateTotals_total_only(ft, t, team_points) ==
    [ft EXCEPT ![t].total_points = @ + team_points]

\* UPDATE fantasy_teams SET total_points = total_points + team_points,
\* gameweek_points = team_points WHERE fantasy_team_id = ...
UpdateTotals(ft, t, team_points) ==
    [ft EXCEPT ![t].total_points = @ + team_points, ![t].gameweek_points = team_points]

\* the iteration with total_points added to only when the team had no points
\* row of the gameweek yet
TeamStep_once(db, t, g, team_points) ==
    [db EXCEPT !.ftgp = UpsertPoints(db.ftgp, t, g, team_points),
               !.ft = IF \E row \in db.ftgp :
                            row.fantasy_team_id = t /\ row.gameweek = g
                       THEN [db.ft EXCEPT ![t].gameweek_points = team_points]
                       ELSE UpdateTotals(db.ft, t, team_points)]

\* one iteration of the loop over the teams
TeamStep(db, t, g, team_points) ==
    [db EXCEPT !.ftgp = UpsertPoints(db.ftgp, t, g, team_points),
               !.ft = UpdateTotals(db.ft, t, team_points)]

\* the loop over the teams: the tables it can end with.  An iteration reads
\* and writes the rows of its own team only, so one order stands for all.
RECURSIVE TeamLoop(_, _, _)
TeamLoop(teams, db, g) ==
    IF teams = {} THEN {db}
    ELSE LET t == CHOOSE x \in teams : TRUE
         IN  UNION {TeamLoop(teams \ {t}, TeamStep(db, t, g, team_points), g)
                    : team_points \in calculate_fantasy_team_points(t, g)}

\* ROW_NUMBER() with ORDER BY key ASC
RowNumbers_ascending(S, key) ==
    {f \in [S -> 1..Cardinality(S)] :
        /\ \A a, b \in S : f[a] = f[b] => a = b
        /\ \A a, b \in S : key[a] < key[b] => f[a] < f[b]}

\* ROW_NUMBER() OVER (ORDER BY key DESC) on the rows S: the numberings it can
\* give; rows of equal key are numbered in any order
RowNumbers(S, key) ==
    {f \in [S -> 1..Cardinality(S)] :
        /\ \A a, b \in S : f[a] = f[b] => a = b
        /\ \A a, b \in S : key[a] > key[b] => f[a] < f[b]}

\* the rows of ranked_teams: this gameweek's points rows joined to the teams
\* of the league
RankedRows(db, league_id, g) ==
    {row \in db.ftgp :
        /\ row.gameweek = g
        /\ row.fantasy_team_id \in DOMAIN db.ft
        /\ db.ft[row.fantasy_team_id].league_id = league_id}

\* the UPDATE without AND gameweek = p_gameweek
SetRankInLeague_every_gameweek(ftgp, ranked, rank, g) ==
    {IF \E r \in ranked : r.fantasy_team_id = row.fantasy_team_id
     THEN [row EXCEPT !.rank_in_league =
                rank[CHOOSE r \in ranked : r.fantasy_team_id = row.fantasy_team_id]]
     ELSE row : row \in ftgp}

\* UPDATE fantasy_team_gameweek_points SET rank_in_league = ranked_teams.rank
\* FROM ranked_teams WHERE the team is the same AND gameweek = p_gameweek.
\* UNIQUE(fantasy_team_id, gameweek) leaves one row of ranked_teams per team.
SetRankInLeague(ftgp, ranked, rank, g) ==
    {IF row.gameweek = g /\ \E r \in ranked : r.fantasy_team_id = row.fantasy_team_id
     THEN [row EXCEPT !.rank_in_league =
                rank[CHOOSE r \in ranked : r.fantasy_team_id = row.fantasy_team_id]]
     ELSE row : row \in ftgp}

\* the rows of overall_ranked: the teams of the league
OverallRows(db, league_id) == {t \in DOMAIN db.ft : db.ft[t].league_id = league_id}

\* the sort key of overall_ranked taken from gameweek_points
OverallKey_gameweek_points(db, league_id) ==
    [t \in OverallRows(db, league_id) |-> db.ft[t].gameweek_points]

\* the sort key of overall_ranked: ORDER BY ft.total_points DESC
OverallKey(db, league_id) ==
    [t \in OverallRows(db, league_id) |-> db.ft[t].total_points]

\* UPDATE fantasy_teams SET rank = overall_ranked.rank FROM overall_ranked
SetRank(ft, rank) ==
    [t \in DOMAIN ft |-> IF t \in DOMAIN rank THEN [ft[t] EXCEPT !.rank = rank[t]] ELSE ft[t]]

\* one iteration of the loop over the leagues: the tables it can end with
LeagueStep(db, league_id, g) ==
    LET ranked == RankedRows(db, league_id, g)
    IN  {[db EXCEPT !.ftgp = SetRankInLeague(db.ftgp, ranked, r1, g),
                    !.ft = SetRank(db.ft, r2)]
         : r1 \in RowNumbers(ranked, [row \in ranked |-> row.points]),
           r2 \in RowNumbers(OverallRows(db, league_id), OverallKey(db, league_id))}

\* the loop over SELECT DISTINCT league_id ... WHERE league_id IS NOT NULL.
\* An iteration reads and writes the rows of its own league only.
RECURSIVE LeagueLoop(_, _, _)
LeagueLoop(league_ids, db, g) ==
    IF league_ids = {} THEN {db}
    ELSE LET l == CHOOSE x \in league_ids : TRUE
         IN  UNION {LeagueLoop(league_ids \ {l}, d, g) : d \in LeagueStep(db, l, g)}

\* the UPDATE without its WHERE
MarkFinalized_all(db, g) ==
    [db EXCEPT !.gw = [n \in DOMAIN db.gw |-> [db.gw[n] EXCEPT !.status = "finalized"]]]

\* UPDATE gameweeks SET status = 'finalized' WHERE gameweek_number = p_gameweek
MarkFinalized(db, g) ==
    [db EXCEPT !.gw = [n \in DOMAIN db.gw |->
                          IF n = g THEN [db.gw[n] EXCEPT !.status = "finalized"]
                          ELSE db.gw[n]]]

\* finalize_gameweek past its existence check: the tables it can end with
finalize_gameweek(g) ==
    {MarkFinalized(d, g)
     : d \in UNION {LeagueLoop({d1.ft[t].league_id : t \in LeagueTeams(d1.ft)}, d1, g)
                    : d1 \in TeamLoop(LeagueTeams(fantasy_teams), Db, g)}}

\* SELECT finalize_gameweek(g): RAISE EXCEPTION rolls the call back
FinalizeGameweek(g) ==
    /\ calls < MaxCalls
    /\ calls' = calls + 1
    /\ IF GameweekExists(g)
       THEN /\ \E d \in finalize_gameweek(g) :
                  /\ fantasy_teams' = d.ft
                  /\ fantasy_team_gameweek_points' = d.ftgp
                  /\ gameweeks' = d.gw
            /\ last' = Call("finalize_gameweek", NULL, g, 0, FALSE, <<>>)
       ELSE /\ last' = Call("finalize_gameweek", NULL, g, 0, TRUE, <<>>)
            /\ UNCHANGED <<fantasy_teams, fantasy_team_gameweek_points, gameweeks>>
    /\ UNCHANGED <<rosters, gameweek_scores, others>>

----------------------------------------------------------------------------
(* Specification of the finalizer: three teams with rosters, the score rows *)
(* of the gameweeks and the leagues of the teams drawn from bounded sets.   *)

\* t1: p1 starts as captain, p3 on the bench; t2: p2 starts as captain;
\* t3: p3 starts as vice-captain
MainRosters ==
    {RosterRow("t1", "p1", TRUE, TRUE, FALSE), RosterRow("t1", "p3", FALSE, FALSE, FALSE),
     RosterRow("t2", "p2", TRUE, TRUE, FALSE),
     RosterRow("t3", "p3", TRUE, FALSE, TRUE)}

ScoreRows(g, f) ==
    {ScoreRow(p, g, f[p].minutes_played, f[p].total_points)
        : p \in {q \in DOMAIN f : f[q].present}}

\* gameweek 1: p1 did not play or scored 5, p2 scored 5 or 8, p3 has no record
\* or scored 8; gameweek 2: no record yet, or p1 scored 8 and p2, p3 5
MainScores ==
    {ScoreRows(1, f) \cup s2
     : f \in {h \in [{"p1", "p2", "p3"} -> ScoreOptions] :
                 /\ h["p1"] \in {Recorded(0, 0), Recorded(90, 5)}
                 /\ h["p2"] \in {Recorded(90, 5), Recorded(90, 8)}
                 /\ h["p3"] \in {NotRecorded, Recorded(90, 8)}},
       s2 \in {{}, {ScoreRow("p1", 2, 90, 8), ScoreRow("p2", 2, 90, 5),
                    ScoreRow("p3", 2, 90, 5)}}}

\* a team as create_default_fantasy_team inserts it, in the league given
NewTeam(league_id) ==
    [league_id |-> league_id, total_points |-> 0, gameweek_points |-> 0, rank |-> 1]

\* t1 is in league L1, t2 in L1 or L2, t3 in L1 or in no league
MainTeams ==
    {[t \in Teams |-> NewTeam(IF t = "t1" THEN "L1" ELSE IF t = "t2" THEN l2 ELSE l3)]
     : l2 \in Leagues, l3 \in {"L1", NULL}}

Init ==
    /\ rosters = MainRosters
    /\ gameweek_scores \in MainScores
    /\ fantasy_teams \in MainTeams
    /\ fantasy_team_gameweek_points = {}
    /\ gameweeks = [g \in 1..(MaxGameweek - 1) |-> GameweekRow(g, g, "upcoming")]
    /\ last = NoCall
    /\ calls = 0
    /\ real_matches = {}
    /\ gameweeks_timed = <<>>
    /\ now = 0
    /\ console = NoConsole
    /\ leagues = NoLeagues
    /\ hook = NoHook
    /\ sessions = NoSessions

Next == \E g \in GameweekNumbers : FinalizeGameweek(g)

Spec == Init /\ [][Next]_vars

----------------------------------------------------------------------------
(* The gameweek lifecycle: generate_gameweeks_from_matches and               *)
(* set_gameweek_status                                                       *)

\* SQL NULL of the column match_date: the dates of the model start at 1
NullDate == 0

\* a row of real_matches
MatchRow(match_id, gameweek, match_date, status) ==
    [match_id |-> match_id, gameweek |-> gameweek, match_date |-> match_date,
     status |-> status]

Min(S) == CHOOSE x \in S : \A y \in S : x <= y

\* FROM real_matches WHERE match_date IS NOT NULL
DatedMatches(rm) == {m \in rm : m.match_date # NullDate}

\* the groups of GROUP BY gameweek
GroupedGameweeks(rm) == {m.gameweek : m \in DatedMatches(rm)}

MatchGroup(rm, g) == {m \in DatedMatches(rm) : m.gameweek = g}

\* CASE WHEN COUNT(*) = COUNT(CASE WHEN status = 'completed' THEN 1 END)
\* THEN 'finalized' ELSE 'upcoming' END, over the rows of one group
GeneratedStatus(ms) ==
    IF Cardinality(ms) = Cardinality({m \in ms : m.status = "completed"})
    THEN "finalized" ELSE "upcoming"

\* the row the loop inserts for the group of gameweek g
GeneratedRow(rm, g) ==
    GameweekRow(Min({m.match_date : m \in MatchGroup(rm, g)}),
                Max({m.match_date : m \in MatchGroup(rm, g)}),
                GeneratedStatus(MatchGroup(rm, g)))

\* the procedure without its DELETE
DeleteGameweeks_none(gw) == gw

\* DELETE FROM gameweeks
DeleteGameweeks(gw) == [g \in {} |-> GameweekRow(0, 0, NULL)]

\* generate_gameweeks_from_matches on the table gw and the matches rm: an
\* INSERT of a gameweek_number the table holds violates UNIQUE, which raises
\* and rolls the call back
generate_gameweeks_from_matches(gw, rm) ==
    LET cleared == DeleteGameweeks(gw)
        groups == GroupedGameweeks(rm)
    IN  IF groups \cap DOMAIN cleared # {}
        THEN [error |-> TRUE, gw |-> gw]
        ELSE [error |-> FALSE,
              gw |-> [g \in DOMAIN cleared \cup groups |->
                         IF g \in groups THEN GeneratedRow(rm, g) ELSE cleared[g]]]

\* SELECT generate_gameweeks_from_matches()
GenerateGameweeks ==
    /\ gameweeks' = generate_gameweeks_from_matches(gameweeks, real_matches).gw
    /\ last' = Call("generate_gameweeks_from_matches", NULL, 0, 0,
                    generate_gameweeks_from_matches(gameweeks, real_matches).error, <<>>)
    /\ UNCHANGED <<rosters, gameweek_scores, fantasy_teams,
                   fantasy_team_gameweek_points, calls, others>>

\* p_status NOT IN ('upcoming', 'active', 'locked', 'finalized'): NULL for a
\* NULL p_status, and IF takes a NULL condition as false
StatusRejected(s) == s # NULL /\ s \notin Statuses

\* set_gameweek_status(g, s) on the table gw.  CHECK (status IN (...)) accepts
\* the four statuses and NULL, so no UPDATE that passes the test violates it
set_gameweek_status(gw, g, s) ==
    IF StatusRejected(s) THEN [error |-> TRUE, gw |-> gw]
    ELSE IF g \notin DOMAIN gw THEN [error |-> TRUE, gw |-> gw]
    ELSE [error |-> FALSE, gw |-> [gw EXCEPT ![g].status = s]]

\* SELECT set_gameweek_status(g, s)
SetGameweekStatus(g, s) ==
    /\ gameweeks' = set_gameweek_status(gameweeks, g, s).gw
    /\ last' = [Call("set_gameweek_status", NULL, g, 0,
                     set_gameweek_status(gameweeks, g, s).error, <<>>)
                EXCEPT !.arg = s]
    /\ UNCHANGED <<rosters, gameweek_scores, fantasy_teams,
                   fantasy_team_gameweek_points, calls, others>>

----------------------------------------------------------------------------
(* Specification of the lifecycle: one team, the matches of two gameweeks    *)
(* drawn from a bounded set, the gameweeks table as the migration's call of  *)
(* generate_gameweeks_from_matches left it, from the matches of now or from  *)
(* these and a match m0 of gameweek 2 that was removed since.                *)

\* the values passed as p_status
StatusArgs == Statuses \cup {"paused", NULL}

\* gameweek 1: m1 played on day 1 and completed, m2 on day 2 or not dated yet,
\* completed or scheduled; gameweek 2: no match yet, or m3 scheduled for day 3
MatchInputs ==
    {{MatchRow("m1", 1, 1, "completed"), MatchRow("m2", 1, d2, s2)} \cup m3
     : d2 \in {2, NullDate}, s2 \in {"completed", "scheduled"},
       m3 \in {{}, {MatchRow("m3", 2, 3, "scheduled")}}}

InitLifecycle ==
    /\ rosters = {RosterRow("t1", "p1", TRUE, TRUE, FALSE)}
    /\ gameweek_scores = {ScoreRow("p1", 1, 90, 5)}
    /\ fantasy_teams = [t \in {"t1"} |-> NewTeam("L1")]
    /\ fantasy_team_gameweek_points = {}
    /\ real_matches \in MatchInputs
    /\ \E rm0 \in {real_matches, real_matches \cup {MatchRow("m0", 2, 2, "completed")}} :
          gameweeks = generate_gameweeks_from_matches(<<>>, rm0).gw
    /\ last = NoCall
    /\ calls = 0
    /\ gameweeks_timed = <<>>
    /\ now = 0
    /\ console = NoConsole
    /\ leagues = NoLeagues
    /\ hook = NoHook
    /\ sessions = NoSessions

NextLifecycle ==
    \/ \E g \in GameweekNumbers : FinalizeGameweek(g)
    \/ \E g \in GameweekNumbers, s \in StatusArgs : SetGameweekStatus(g, s)
    \/ GenerateGameweeks

SpecLifecycle == InitLifecycle /\ [][NextLifecycle]_vars

----------------------------------------------------------------------------
(* The time-derived gameweek flags of 20250616110333_dry_wave.sql:          *)
(* update_gameweek_status and transfers_allowed.  Timestamps are integers.  *)

\* the database clock runs from 0 to MaxTime
MaxTime == 7

\* a row of the gameweeks table of this migration
TimedRow(deadline_time, start_time, end_time, is_current) ==
    [deadline_time |-> deadline_time, start_time |-> start_time,
     end_time |-> end_time, is_current |-> is_current, is_next |-> FALSE,
     is_finished |-> FALSE]

\* SELECT MIN(gameweek_number) FROM gameweeks WHERE start_time > NOW(): the set
\* of the rows the outer WHERE matches (none when the MIN is NULL)
NextGameweeks(gw, t) ==
    LET later == {n \in DOMAIN gw : gw[n].start_time > t}
    IN  IF later = {} THEN {} ELSE {Min(later)}

\* update_gameweek_status() at time t on the table gw
update_gameweek_status(gw, t) ==
    [n \in DOMAIN gw |->
        [gw[n] EXCEPT !.is_current = (t >= gw[n].start_time /\ t <= gw[n].end_time),
                      !.is_next = (n \in NextGameweeks(gw, t)),
                      !.is_finished = (@ \/ gw[n].end_time < t)]]

\* WHERE is_current = true OR is_next = true
FlaggedGameweeks(gw) == {n \in DOMAIN gw : gw[n].is_current \/ gw[n].is_next}

\* transfers_allowed() at time t on the table gw: the row of the lowest flagged
\* gameweek_number if any; without a row both variables stay NULL and COALESCE
\* makes them false
transfers_allowed(gw, t) ==
    IF FlaggedGameweeks(gw) = {} THEN ~(FALSE \/ FALSE)
    ELSE LET row == gw[Min(FlaggedGameweeks(gw))]
             deadline_passed == t > row.deadline_time
             gameweek_active == t >= row.start_time /\ t <= row.end_time
         IN  ~(deadline_passed \/ gameweek_active)

\* SELECT update_gameweek_status(); arg records NOW()
UpdateGameweekStatus ==
    /\ gameweeks_timed' = update_gameweek_status(gameweeks_timed, now)
    /\ last' = [Call("update_gameweek_status", NULL, 0, 0, FALSE, <<>>)
                EXCEPT !.arg = now]
    /\ UNCHANGED <<tables, calls, real_matches, now, console, leagues, hook, sessions>>

\* SELECT transfers_allowed(); arg records NOW()
TransfersAllowed ==
    /\ last' = [Call("transfers_allowed", NULL, 0, 0, FALSE, <<>>)
                EXCEPT !.result = transfers_allowed(gameweeks_timed, now),
                       !.arg = now]
    /\ UNCHANGED <<tables, calls, real_matches, gameweeks_timed, now, console, leagues,
                   hook, sessions>>

\* the clock advances
Tick ==
    /\ now < MaxTime
    /\ now' = now + 1
    /\ UNCHANGED <<tables, calls, last, real_matches, gameweeks_timed, console,
                   leagues, hook, sessions>>

\* the seed rows: gameweek 1 with deadline 1 and window [2, 3], inserted with
\* is_current = true; gameweek 2 with deadline 4 and window [5, 6], or entered
\* with deadline 2 and a window [3, 5] that overlaps the one of gameweek 1
TimedInputs ==
    {[n \in {1, 2} |-> IF n = 1 THEN TimedRow(1, 2, 3, TRUE) ELSE row2]
     : row2 \in {TimedRow(4, 5, 6, FALSE), TimedRow(2, 3, 5, FALSE)}}

InitTime ==
    /\ rosters = {}
    /\ gameweek_scores = {}
    /\ fantasy_teams = <<>>
    /\ fantasy_team_gameweek_points = {}
    /\ gameweeks = <<>>
    /\ real_matches = {}
    /\ last = NoCall
    /\ calls = 0
    /\ gameweeks_timed \in TimedInputs
    /\ now = 0
    /\ console = NoConsole
    /\ leagues = NoLeagues
    /\ hook = NoHook
    /\ sessions = NoSessions

NextTime ==
    \/ UpdateGameweekStatus
    \/ TransfersAllowed
    \/ Tick

SpecTime == InitTime /\ [][NextTime]_vars

----------------------------------------------------------------------------
(* The admin console, components/admin/GameweekManager.tsx.  An async       *)
(* handler is one action per await: the click, the return of the remote     *)
(* call, the return of each fetch that follows it.  A fetch reads the       *)
(* tables when it returns.                                                  *)

\* no handler is running; selected is the selectedGameweek of the render the
\* running handler was created in, 0 for null
NoHandler == [op |-> "none", gameweek |-> 0, status |-> NULL, step |-> "idle",
              selected |-> 0]

\* useState<GameweekStats | null>(null).  The field gameweek is not in the
\* component: it records the gameweek the statistics were fetched for
NoStats == [present |-> FALSE, gameweek |-> 0, total_matches |-> 0,
            completed_matches |-> 0, total_teams |-> 0, calculated_teams |-> 0]

\* the component after its first render: the fetchGameweeks of the mount
\* effect is on its way
MountedConsole ==
    [mounted |-> TRUE, gameweeks |-> <<>>, selectedGameweek |-> 0,
     gameweekStats |-> NoStats, loading |-> TRUE, processing |-> FALSE,
     toast |-> "none", handler |-> NoHandler, fetching |-> {}, mounting |-> TRUE]

\* what fetchGameweekStats(g) passes to setGameweekStats
GameweekStatsOf(g) ==
    [present |-> TRUE, gameweek |-> g,
     total_matches |-> Cardinality({m \in real_matches : m.gameweek = g}),
     completed_matches |->
         Cardinality({m \in real_matches : m.gameweek = g /\ m.status = "completed"}),
     total_teams |-> Cardinality(DOMAIN fantasy_teams),
     calculated_teams |->
         Cardinality({row \in fantasy_team_gameweek_points : row.gameweek = g})]

\* setSelectedGameweek(g): when the value changes, the effect on
\* selectedGameweek starts fetchGameweekStats(g)
Select(c, g) ==
    IF g = c.selectedGameweek THEN c
    ELSE [c EXCEPT !.selectedGameweek = g, !.fetching = @ \cup {g}]

\* fetchGameweeks with the rows data, in a render where selectedGameweek was sel
SetGameweeks(c, data, sel) ==
    LET c1 == [c EXCEPT !.gameweeks = data, !.loading = FALSE]
        notFinalized == {n \in DOMAIN data : data[n].status # "finalized"}
    IN  IF notFinalized # {} /\ sel = 0 THEN Select(c1, Min(notFinalized)) ELSE c1

\* fetchGameweeks when its query fails
FetchGameweeksFailed(c) == [c EXCEPT !.toast = "error", !.loading = FALSE]

\* finally { setProcessing(false) }
Finish(c) == [c EXCEPT !.processing = FALSE, !.handler = NoHandler]

\* the catch block without the finally block after it
HandleError_no_finally(c) == [c EXCEPT !.toast = "error", !.handler = NoHandler]

\* catch (error) { toast.error(...) } finally { ... }
HandleError(c) == Finish([c EXCEPT !.toast = "error"])

\* const selectedGW = gameweeks.find(gw => gw.gameweek_number === selectedGameweek)
HasSelectedGW == console.selectedGameweek \in DOMAIN console.gameweeks
selectedGW == console.gameweeks[console.selectedGameweek]

\* the statuses the rendered buttons pass to setGameweekStatus
StatusButtons ==
    IF ~HasSelectedGW THEN {}
    ELSE (IF selectedGW.status = "upcoming" THEN {"active"} ELSE {})
         \cup (IF selectedGW.status = "active" THEN {"locked"} ELSE {})
         \cup (IF selectedGW.status # "finalized" THEN {"upcoming"} ELSE {})

\* the 'Finalize Gameweek' button is rendered
FinalizeRendered ==
    /\ HasSelectedGW
    /\ selectedGW.status \in {"locked", "active"}
    /\ console.gameweekStats.present
    /\ console.gameweekStats.completed_matches = console.gameweekStats.total_matches

\* the button can be clicked: rendered, past the loading screen, not disabled
FinalizeEnabled == FinalizeRendered /\ ~console.loading /\ ~console.processing

db == <<rosters, gameweek_scores, fantasy_teams, fantasy_team_gameweek_points,
        gameweeks, real_matches>>

\* the fetchGameweeks of the mount effect returns
MountFetchReturns ==
    /\ console.mounting
    /\ \E ok \in BOOLEAN :
          console' = [(IF ok THEN SetGameweeks(console, gameweeks, 0)
                       ELSE FetchGameweeksFailed(console))
                      EXCEPT !.mounting = FALSE]
    /\ UNCHANGED <<db, last, calls, gameweeks_timed, now, leagues, hook, sessions>>

\* a click on the card of gameweek g
SelectGameweek(g) ==
    /\ ~console.loading
    /\ g \in DOMAIN console.gameweeks
    /\ g # console.selectedGameweek
    /\ console' = Select(console, g)
    /\ UNCHANGED <<db, last, calls, gameweeks_timed, now, leagues, hook, sessions>>

\* a fetchGameweekStats(g) started by the effect returns
StatsReturn(g) ==
    /\ g \in console.fetching
    /\ \E ok \in BOOLEAN :
          console' = [console EXCEPT !.fetching = @ \ {g},
                         !.gameweekStats = IF ok THEN GameweekStatsOf(g) ELSE @]
    /\ UNCHANGED <<db, last, calls, gameweeks_timed, now, leagues, hook, sessions>>

\* setProcessing(true) and the remote call of a handler
StartHandler(op, g, s) ==
    /\ ~console.loading
    /\ ~console.processing
    /\ console' = [console EXCEPT !.processing = TRUE,
                      !.handler = [op |-> op, gameweek |-> g, status |-> s,
                                   step |-> "rpc",
                                   selected |-> console.selectedGameweek]]
    /\ UNCHANGED <<db, last, calls, gameweeks_timed, now, leagues, hook, sessions>>

\* a click on 'Regenerate from Matches'
ClickRegenerate ==
    /\ console.mounted
    /\ StartHandler("regenerateGameweeks", 0, NULL)

\* a click on 'Start Gameweek', 'Lock Transfers' or 'Reset to Upcoming'
ClickSetStatus(s) ==
    /\ s \in StatusButtons
    /\ StartHandler("setGameweekStatus", console.selectedGameweek, s)

\* a click on 'Finalize Gameweek', confirmed
ClickFinalize ==
    /\ FinalizeRendered
    /\ StartHandler("finalizeGameweek", console.selectedGameweek, NULL)

\* the procedure a handler calls
Procedure(op) ==
    IF op = "regenerateGameweeks" THEN "generate_gameweeks_from_matches"
    ELSE IF op = "setGameweekStatus" THEN "set_gameweek_status"
    ELSE "finalize_gameweek"

\* the call of the running handler as recorded in last
HandlerCall(error) ==
    [Call(Procedure(console.handler.op), NULL, console.handler.gameweek, 0, error, <<>>)
     EXCEPT !.arg = console.handler.status]

\* the remote call returned an error: if (error) throw error
RpcFailed ==
    /\ last' = HandlerCall(TRUE)
    /\ console' = HandleError(console)
    /\ UNCHANGED db

\* the remote call returned without error: the toast, then fetchGameweeks
RpcSucceeded ==
    /\ last' = HandlerCall(FALSE)
    /\ console' = [console EXCEPT !.toast = "success", !.handler.step = "fetchGameweeks"]

\* the remote call of the running handler returns: the request fails on its
\* way, or the procedure runs and raises or returns
RpcReturns ==
    /\ console.mounted
    /\ console.handler.step = "rpc"
    /\ \/ RpcFailed
       \/ /\ console.handler.op = "regenerateGameweeks"
          /\ LET r == generate_gameweeks_from_matches(gameweeks, real_matches)
             IN  IF r.error THEN RpcFailed
                 ELSE /\ RpcSucceeded
                      /\ gameweeks' = r.gw
                      /\ UNCHANGED <<rosters, gameweek_scores, fantasy_teams,
                                     fantasy_team_gameweek_points, real_matches>>
       \/ /\ console.handler.op = "setGameweekStatus"
          /\ LET r == set_gameweek_status(gameweeks, console.handler.gameweek,
                                          console.handler.status)
             IN  IF r.error THEN RpcFailed
                 ELSE /\ RpcSucceeded
                      /\ gameweeks' = r.gw
                      /\ UNCHANGED <<rosters, gameweek_scores, fantasy_teams,
                                     fantasy_team_gameweek_points, real_matches>>
       \/ /\ console.handler.op = "finalizeGameweek"
          /\ IF GameweekExists(console.handler.gameweek)
             THEN /\ RpcSucceeded
                  /\ \E d \in finalize_gameweek(console.handler.gameweek) :
                        /\ fantasy_teams' = d.ft
                        /\ fantasy_team_gameweek_points' = d.ftgp
                        /\ gameweeks' = d.gw
                  /\ UNCHANGED <<rosters, gameweek_scores, real_matches>>
             ELSE RpcFailed
    /\ UNCHANGED <<calls, gameweeks_timed, now, leagues, hook, sessions>>

\* the await fetchGameweeks() of the running handler returns; setGameweekStatus
\* goes on to fetchGameweekStats if (selectedGameweek === gameweek),
\* finalizeGameweek always, regenerateGameweeks never
HandlerFetchGameweeksReturns ==
    /\ console.mounted
    /\ console.handler.step = "fetchGameweeks"
    /\ \E ok \in BOOLEAN :
          LET c == IF ok
                   THEN SetGameweeks(console, gameweeks, console.handler.selected)
                   ELSE FetchGameweeksFailed(console)
              more == \/ console.handler.op = "finalizeGameweek"
                      \/ /\ console.handler.op = "setGameweekStatus"
                         /\ console.handler.selected = console.handler.gameweek
          IN  console' = IF more THEN [c EXCEPT !.handler.step = "fetchGameweekStats"]
                         ELSE Finish(c)
    /\ UNCHANGED <<db, last, calls, gameweeks_timed, now, leagues, hook, sessions>>

\* the await fetchGameweekStats(gameweek) of the running handler returns
HandlerFetchStatsReturns ==
    /\ console.mounted
    /\ console.handler.step = "fetchGameweekStats"
    /\ \E ok \in BOOLEAN :
          console' = Finish([console EXCEPT !.gameweekStats =
                                IF ok THEN GameweekStatsOf(console.handler.gameweek)
                                ELSE @])
    /\ UNCHANGED <<db, last, calls, gameweeks_timed, now, leagues, hook, sessions>>

\* the matches as they were before any was played
Scheduled(rm) == {[m EXCEPT !.status = "scheduled"] : m \in rm}

\* gameweek 1: m1 and m2 completed; gameweek 2: m3 scheduled, or no match at all
ConsoleMatches ==
    {{MatchRow("m1", 1, 1, "completed"), MatchRow("m2", 1, 2, "completed")} \cup m3
     : m3 \in {{}, {MatchRow("m3", 2, 3, "scheduled")}}}

\* the gameweeks were generated before the matches were played, when a match
\* m0 of gameweek 2, removed since, was in real_matches; there are no teams yet
InitConsole ==
    /\ rosters = {}
    /\ gameweek_scores = {}
    /\ fantasy_teams = <<>>
    /\ fantasy_team_gameweek_points = {}
    /\ real_matches \in ConsoleMatches
    /\ gameweeks = generate_gameweeks_from_matches(<<>>,
                       Scheduled(real_matches \cup {MatchRow("m0", 2, 2, "scheduled")})).gw
    /\ last = NoCall
    /\ calls = 0
    /\ gameweeks_timed = <<>>
    /\ now = 0
    /\ console = MountedConsole
    /\ leagues = NoLeagues
    /\ hook = NoHook
    /\ sessions = NoSessions

NextConsole ==
    \/ MountFetchReturns
    \/ \E g \in GameweekNumbers : SelectGameweek(g)
    \/ \E g \in GameweekNumbers : StatsReturn(g)
    \/ ClickRegenerate
    \/ \E s \in Statuses : ClickSetStatus(s)
    \/ ClickFinalize
    \/ RpcReturns
    \/ HandlerFetchGameweeksReturns
    \/ HandlerFetchStatsReturns

SpecConsole == InitConsole /\ [][NextConsole]_vars

----------------------------------------------------------------------------
(* What the scoring engine is claimed to return, stated on the tables       *)

RECURSIVE SumOf(_, _)
\* sum of pts[p] over the players p of S
SumOf(S, pts) ==
    IF S = {} THEN 0
    ELSE LET p == CHOOSE x \in S : TRUE IN pts[p] + SumOf(S \ {p}, pts)

StarterIds(t) == {r.player_id : r \in {x \in rosters : x.fantasy_team_id = t /\ x.is_starter}}
BenchIds(t) == {r.player_id : r \in {x \in rosters : x.fantasy_team_id = t /\ ~x.is_starter}}
FlaggedCaptain(t) == {r.player_id : r \in {x \in rosters : x.fantasy_team_id = t /\ x.is_captain}}
FlaggedVice(t) == {r.player_id : r \in {x \in rosters : x.fantasy_team_id = t /\ x.is_vice_captain}}

\* a team of the data model: at most one captain and one vice-captain
OneCaptainAndVice(t) == Cardinality(FlaggedCaptain(t)) <= 1 /\ Cardinality(FlaggedVice(t)) <= 1

\* bench players that may replace a starter of position pos
EligibleBench(t, g, pos) ==
    {b \in BenchIds(t) : players[b] = pos /\ MinutesPlayed(b, g) > 0}

BestBenchPoints(t, g, pos) == Max({PlayerPoints(b, g) : b \in EligibleBench(t, g, pos)})

\* points of starter p after substitution
AfterSubstitution(t, g, p) ==
    IF MinutesPlayed(p, g) = 0 /\ EligibleBench(t, g, players[p]) # {}
    THEN BestBenchPoints(t, g, players[p])
    ELSE PlayerPoints(p, g)

\* a starter's points after substitution; a player who does not start has none
ComputedPoints(t, g, S) ==
    IF S \cap StarterIds(t) = {} THEN 0
    ELSE AfterSubstitution(t, g, CHOOSE p \in S \cap StarterIds(t) : TRUE)

ExpectedBonus(t, g) ==
    IF ComputedPoints(t, g, FlaggedCaptain(t)) > 0 THEN ComputedPoints(t, g, FlaggedCaptain(t))
    ELSE IF ComputedPoints(t, g, FlaggedVice(t)) > 0 THEN ComputedPoints(t, g, FlaggedVice(t))
    ELSE 0

ExpectedTotal(t, g) ==
    SumOf(StarterIds(t), [p \in StarterIds(t) |-> AfterSubstitution(t, g, p)])
    + ExpectedBonus(t, g)

Calculated == last.op = "calculate_fantasy_team_points"

\* a zero-minute starter of the last call that had an eligible bench player
SubstitutedStarters ==
    {p \in StarterIds(last.team) :
        MinutesPlayed(p, last.gameweek) = 0
        /\ EligibleBench(last.team, last.gameweek, players[p]) # {}}

\* C1: calculate_fantasy_team_points returns the sum of the starters' points
\* after substitution plus the bonus: the captain's points after substitution
\* if positive, else the vice-captain's if positive, else 0.
C1_TotalIsStartersPlusBonus ==
    (Calculated /\ OneCaptainAndVice(last.team))
        => last.result = ExpectedTotal(last.team, last.gameweek)

\* a call in which a starter was substituted and a bonus was added
C1_Witness ==
    /\ Calculated
    /\ SubstitutedStarters # {}
    /\ ExpectedBonus(last.team, last.gameweek) > 0
    /\ last.result = ExpectedTotal(last.team, last.gameweek)
    /\ Cardinality(StarterIds(last.team)) >= 2
\* the starters of the last call that played zero minutes
ZeroMinuteStarters == {p \in StarterIds(last.team) : MinutesPlayed(p, last.gameweek) = 0}

\* C2 as claimed: a zero-minute starter contributes the points of the
\* highest-scoring eligible bench player of its position, and zero when there
\* is none.
C2_ZeroWithoutSubstitute ==
    Calculated =>
        \A p \in ZeroMinuteStarters :
            last.contrib[p] =
                IF EligibleBench(last.team, last.gameweek, players[p]) # {}
                THEN BestBenchPoints(last.team, last.gameweek, players[p])
                ELSE 0

\* C2 amended: a zero-minute starter contributes the points of the
\* highest-scoring eligible bench player of its position, and its own recorded
\* points (zero when it has no score record) when there is none.
C2_OwnPointsWithoutSubstitute ==
    Calculated =>
        \A p \in ZeroMinuteStarters :
            last.contrib[p] =
                IF EligibleBench(last.team, last.gameweek, players[p]) # {}
                THEN BestBenchPoints(last.team, last.gameweek, players[p])
                ELSE PlayerPoints(p, last.gameweek)

\* a zero-minute starter with two eligible bench players of different points,
\* and another zero-minute starter with no eligible bench player
C2_Witness ==
    /\ Calculated
    /\ \E p \in ZeroMinuteStarters :
          /\ \E a, b \in EligibleBench(last.team, last.gameweek, players[p]) :
                PlayerPoints(a, last.gameweek) < PlayerPoints(b, last.gameweek)
          /\ last.contrib[p] = BestBenchPoints(last.team, last.gameweek, players[p])
    /\ \E q \in ZeroMinuteStarters :
          /\ EligibleBench(last.team, last.gameweek, players[q]) = {}
          /\ last.contrib[q] = PlayerPoints(q, last.gameweek)

\* the points the starter rows of the last call added, and what it added on top
LastBase == SumOf(DOMAIN last.contrib, last.contrib)
LastBonus == last.result - LastBase

\* the computed points of the flagged player of S in the last call
LastComputed(S) ==
    IF S \cap DOMAIN last.contrib = {} THEN 0
    ELSE last.contrib[CHOOSE p \in S \cap DOMAIN last.contrib : TRUE]

LastCaptainPoints == LastComputed(FlaggedCaptain(last.team))
LastVicePoints == LastComputed(FlaggedVice(last.team))

\* the captain of the last call started, played zero minutes and had an
\* eligible bench player
CaptainSubstituted ==
    \E p \in FlaggedCaptain(last.team) \cap ZeroMinuteStarters :
        EligibleBench(last.team, last.gameweek, players[p]) # {}

RosterScores ==
    {gs \in gameweek_scores :
        /\ gs.gameweek = last.gameweek
        /\ gs.player_id \in StarterIds(last.team) \cup BenchIds(last.team)}

\* C4 as claimed: calculate_fantasy_team_points returns a non-negative integer
\* for every content of the tables.
C4_NeverNegative == Calculated => last.result >= 0

\* C4 amended: calculate_fantasy_team_points returns a non-negative integer
\* when no score row of the team's roster players for that gameweek has
\* negative total_points.
C4_NonNegativeScoresNonNegativeTotal ==
    (Calculated /\ \A gs \in RosterScores : gs.total_points >= 0) => last.result >= 0

\* a call on score rows without negative points, with a substitution
C4_Witness ==
    /\ Calculated
    /\ \A gs \in RosterScores : gs.total_points >= 0
    /\ RosterScores # {}
    /\ SubstitutedStarters # {}
    /\ last.result > 0

----------------------------------------------------------------------------
(* What the finalizer is claimed to do *)

\* the step is a call of finalize_gameweek
FinalizeCalled == calls' = calls + 1 /\ last'.op = "finalize_gameweek"

\* the last call was a finalize_gameweek that returned without an exception
Finalized == last.op = "finalize_gameweek" /\ ~last.error

\* this gameweek's points rows of team t
PointsRows(t, g) ==
    {row \in fantasy_team_gameweek_points : row.fantasy_team_id = t /\ row.gameweek = g}

\* the league ids in use and the teams of a league
LeagueIdsInUse == {fantasy_teams[t].league_id : t \in LeagueTeams(fantasy_teams)}
TeamsOf(league_id) == {t \in DOMAIN fantasy_teams : fantasy_teams[t].league_id = league_id}

\* C5: finalize_gameweek(G) for a G without a gameweeks row raises an error and
\* leaves every table as it was.
C5_MissingGameweekChangesNothing ==
    [][(FinalizeCalled /\ last'.gameweek \notin DOMAIN gameweeks)
          => (last'.error /\ tables' = tables)]_vars

\* a rejected finalize_gameweek(G) on tables an earlier call has filled
C5_Witness ==
    /\ last.op = "finalize_gameweek"
    /\ last.error
    /\ last.gameweek \notin DOMAIN gameweeks
    /\ fantasy_team_gameweek_points # {}
    /\ \E t \in DOMAIN fantasy_teams : fantasy_teams[t].total_points > 0

\* C6: fantasy_team_gameweek_points never holds two rows for one (team,
\* gameweek); right after a successful finalize_gameweek(G) it holds exactly one
\* row for (T, G) for every team T with a league, with the points
\* calculate_fantasy_team_points(T, G) returns.
C6_OnePointsRowPerTeamAndGameweek ==
    /\ \A r1, r2 \in fantasy_team_gameweek_points :
          (r1.fantasy_team_id = r2.fantasy_team_id /\ r1.gameweek = r2.gameweek) => r1 = r2
    /\ Finalized =>
          \A t \in LeagueTeams(fantasy_teams) :
              /\ Cardinality(PointsRows(t, last.gameweek)) = 1
              /\ \A row \in PointsRows(t, last.gameweek) :
                    calculate_fantasy_team_points(t, last.gameweek) = {row.points}

\* a gameweek finalized a second time: still one row per team, with points
C6_Witness ==
    /\ Finalized
    /\ calls >= 2
    /\ \A t \in LeagueTeams(fantasy_teams) :
          /\ Cardinality(PointsRows(t, last.gameweek)) = 1
          /\ fantasy_teams[t].total_points > fantasy_teams[t].gameweek_points
          /\ \E row \in PointsRows(t, last.gameweek) :
                row.points > 0 /\ row.points = fantasy_teams[t].gameweek_points
    /\ Cardinality(fantasy_team_gameweek_points) = Cardinality(LeagueTeams(fantasy_teams))

\* this gameweek's points rows of the teams of a league
LeagueRows(league_id, g) ==
    {row \in fantasy_team_gameweek_points :
        row.gameweek = g /\ row.fantasy_team_id \in TeamsOf(league_id)}

\* C7: after a successful finalize_gameweek(G), in every league of n teams the
\* rank_in_league values of the gameweek-G rows are exactly 1..n, and a team
\* with strictly more gameweek-G points has a smaller rank_in_league.
C7_RankInLeagueByPoints ==
    Finalized =>
        \A l \in LeagueIdsInUse :
            /\ \A t \in TeamsOf(l) : PointsRows(t, last.gameweek) # {}
            /\ \A n \in 1..Cardinality(TeamsOf(l)) :
                  Cardinality({row \in LeagueRows(l, last.gameweek) :
                                  row.rank_in_league = n}) = 1
            /\ \A row \in LeagueRows(l, last.gameweek) :
                  row.rank_in_league \in 1..Cardinality(TeamsOf(l))
            /\ \A a, b \in LeagueRows(l, last.gameweek) :
                  a.points > b.points => a.rank_in_league < b.rank_in_league

\* a league of three teams with three different gameweek points, ranked 1, 2, 3
C7_Witness ==
    /\ Finalized
    /\ \E l \in LeagueIdsInUse :
          /\ Cardinality(TeamsOf(l)) = 3
          /\ \E a, b, c \in LeagueRows(l, last.gameweek) :
                /\ a.points > b.points /\ b.points > c.points
                /\ a.rank_in_league = 1 /\ b.rank_in_league = 2 /\ c.rank_in_league = 3

\* C8: two runs of finalize_gameweek(G) from the same table contents assign the
\* same rank_in_league and the same rank to every team: whatever a run of
\* finalize_gameweek(G) can write from the tables is what this run wrote.
C8_RanksDeterministic ==
    [][(FinalizeCalled /\ ~last'.error)
          => \A d \in finalize_gameweek(last'.gameweek) :
                /\ d.ftgp = fantasy_team_gameweek_points'
                /\ d.ft = fantasy_teams']_vars

\* C9: a successful finalize_gameweek(G) adds to each league team's
\* total_points the points computed for the team and G and sets gameweek_points
\* to them; a team without a league keeps both.
C9_TotalsGrowByComputedPoints ==
    [][(FinalizeCalled /\ ~last'.error)
          => \A t \in DOMAIN fantasy_teams :
                IF fantasy_teams[t].league_id # NULL
                THEN \E team_points \in calculate_fantasy_team_points(t, last'.gameweek) :
                        /\ fantasy_teams'[t].total_points =
                              fantasy_teams[t].total_points + team_points
                        /\ fantasy_teams'[t].gameweek_points = team_points
                ELSE /\ fantasy_teams'[t].total_points = fantasy_teams[t].total_points
                     /\ fantasy_teams'[t].gameweek_points = fantasy_teams[t].gameweek_points]_vars

\* a second finalization has added points to non-zero totals, beside a team
\* without a league that still has none
C9_Witness ==
    /\ Finalized
    /\ calls >= 2
    /\ \E t \in LeagueTeams(fantasy_teams) :
          /\ fantasy_teams[t].gameweek_points > 0
          /\ fantasy_teams[t].total_points > fantasy_teams[t].gameweek_points
    /\ \E t \in DOMAIN fantasy_teams :
          /\ fantasy_teams[t].league_id = NULL
          /\ fantasy_teams[t].total_points = 0
          /\ fantasy_teams[t].gameweek_points = 0

\* C10: after a successful finalize_gameweek(G), in every league the rank
\* values of the teams are a permutation of 1..n, and a team with strictly
\* more total_points (this finalization's points included) has a smaller rank.
C10_RankByTotalPoints ==
    Finalized =>
        \A l \in LeagueIdsInUse :
            /\ \A n \in 1..Cardinality(TeamsOf(l)) :
                  Cardinality({t \in TeamsOf(l) : fantasy_teams[t].rank = n}) = 1
            /\ \A a, b \in TeamsOf(l) :
                  fantasy_teams[a].total_points > fantasy_teams[b].total_points
                      => fantasy_teams[a].rank < fantasy_teams[b].rank

\* after two finalizations, a league whose order by total_points is the
\* reverse of its order by the last gameweek's points
C10_Witness ==
    /\ Finalized
    /\ calls >= 2
    /\ \E l \in LeagueIdsInUse : \E a, b \in TeamsOf(l) :
          /\ fantasy_teams[a].total_points > fantasy_teams[b].total_points
          /\ fantasy_teams[a].gameweek_points < fantasy_teams[b].gameweek_points
          /\ fantasy_teams[a].rank < fantasy_teams[b].rank

----------------------------------------------------------------------------
(* The claims on the gameweek lifecycle *)

\* C11: a successful finalize_gameweek(G) sets the status of gameweek G to
\* 'finalized' whatever it was before, and leaves every other row of gameweeks
\* (and the set of rows) as it was.
C11_FinalizeMarksOnlyItsGameweek ==
    [][(FinalizeCalled /\ ~last'.error)
          => /\ DOMAIN gameweeks' = DOMAIN gameweeks
             /\ \A n \in DOMAIN gameweeks :
                   gameweeks'[n] = IF n = last'.gameweek
                                   THEN [gameweeks[n] EXCEPT !.status = "finalized"]
                                   ELSE gameweeks[n]]_vars

\* gameweek 1 was finalized while gameweek 2 was locked, and gameweek 2 still is
C11_Witness ==
    /\ Finalized
    /\ last.gameweek = 1
    /\ DOMAIN gameweeks = {1, 2}
    /\ gameweeks[1].status = "finalized"
    /\ gameweeks[2].status = "locked"

\* the step is a second successful finalize_gameweek of the gameweek the call
\* before it finalized (no action of the finalizer's specification changes
\* rosters or gameweek_scores)
Refinalized ==
    /\ Finalized
    /\ FinalizeCalled
    /\ ~last'.error
    /\ last'.gameweek = last.gameweek

\* C12: a second finalize_gameweek(G) over the same rosters and scores adds each
\* league team's gameweek-G points to its total_points once more, and leaves
\* the team one gameweek-G points row with the same points.
C12_SecondRunAddsPointsAgain ==
    [][Refinalized
          => \A t \in LeagueTeams(fantasy_teams) :
                \E row \in PointsRows(t, last.gameweek) :
                   /\ PointsRows(t, last.gameweek) = {row}
                   /\ fantasy_teams'[t].total_points =
                         fantasy_teams[t].total_points + row.points
                   /\ \E row2 \in fantasy_team_gameweek_points' :
                         /\ row2.points = row.points
                         /\ {r \in fantasy_team_gameweek_points' :
                                r.fantasy_team_id = t /\ r.gameweek = last.gameweek}
                               = {row2}]_vars

\* both calls finalized the same gameweek: a team's total is twice the points
\* of its one points row
C12_Witness ==
    /\ Finalized
    /\ calls = 2
    /\ \A row \in fantasy_team_gameweek_points : row.gameweek = last.gameweek
    /\ \E t \in LeagueTeams(fantasy_teams) :
          \E row \in PointsRows(t, last.gameweek) :
             /\ PointsRows(t, last.gameweek) = {row}
             /\ row.points > 0
             /\ fantasy_teams[t].total_points = 2 * row.points

\* C13: a gameweek whose status is 'finalized' keeps that status through every
\* later call of set_gameweek_status, finalize_gameweek and
\* generate_gameweeks_from_matches.
C13_FinalizedIsTerminal ==
    [][\A n \in DOMAIN gameweeks :
          gameweeks[n].status = "finalized"
              => /\ n \in DOMAIN gameweeks'
                 /\ gameweeks'[n].status = "finalized"]_vars

\* C14: set_gameweek_status(G, S) raises and changes no table when S is not one
\* of the four statuses or no gameweek has number G; otherwise it sets the
\* status of G to S and changes nothing else.
C14_SetStatusValidates ==
    [][last'.op = "set_gameweek_status"
          => IF last'.arg \notin Statuses \/ last'.gameweek \notin DOMAIN gameweeks
             THEN last'.error /\ tables' = tables
             ELSE /\ ~last'.error
                  /\ gameweeks' = [gameweeks EXCEPT ![last'.gameweek].status = last'.arg]
                  /\ UNCHANGED <<rosters, gameweek_scores, fantasy_teams,
                                 fantasy_team_gameweek_points, real_matches>>]_vars

\* the last call was generate_gameweeks_from_matches
Generated == last.op = "generate_gameweeks_from_matches"

\* C15: after generate_gameweeks_from_matches, a second call with the same
\* real_matches returns without an error and leaves gameweeks as the first call
\* left it, and that table is the one the call yields from an empty gameweeks
\* table: what the table held before the first call is gone.
C15_GenerateIdempotent ==
    Generated =>
        /\ ~last.error
        /\ generate_gameweeks_from_matches(gameweeks, real_matches)
              = [error |-> FALSE, gw |-> gameweeks]
        /\ generate_gameweeks_from_matches(<<>>, real_matches).gw = gameweeks

\* generated after a finalization: a gameweek is back to 'upcoming'
C15_Witness ==
    /\ Generated
    /\ fantasy_team_gameweek_points # {}
    /\ \E n \in DOMAIN gameweeks : gameweeks[n].status = "upcoming"

\* the matches of gameweek g, dated or not
MatchesOf(g) == {m \in real_matches : m.gameweek = g}

\* C16: after generate_gameweeks_from_matches, gameweeks holds one row for each
\* gameweek number with a dated match and no other row; its dates are the
\* earliest and the latest match date of the gameweek, its status 'finalized'
\* if and only if all matches of the gameweek are completed, else 'upcoming'.
C16_GeneratedFromAllMatches ==
    Generated =>
        /\ DOMAIN gameweeks = {m.gameweek : m \in DatedMatches(real_matches)}
        /\ \A g \in DOMAIN gameweeks :
              /\ gameweeks[g].start_date =
                    Min({m.match_date : m \in MatchesOf(g)} \ {NullDate})
              /\ gameweeks[g].end_date =
                    Max({m.match_date : m \in MatchesOf(g)} \ {NullDate})
              /\ gameweeks[g].status =
                    IF \A m \in MatchesOf(g) : m.status = "completed"
                    THEN "finalized" ELSE "upcoming"

----------------------------------------------------------------------------
(* The claims on the time-derived flags *)

\* C17: after every update_gameweek_status call, at most one gameweek has
\* is_current = true, whatever the time and the stored windows.
C17_AtMostOneCurrent ==
    last.op = "update_gameweek_status"
        => Cardinality({n \in DOMAIN gameweeks_timed :
                           gameweeks_timed[n].is_current}) <= 1

\* the gameweeks that are active at time t or the next to start after t
ActiveOrNext(t) ==
    {n \in DOMAIN gameweeks_timed :
        t >= gameweeks_timed[n].start_time /\ t <= gameweeks_timed[n].end_time}
    \cup NextGameweeks(gameweeks_timed, t)

----------------------------------------------------------------------------
(* The claims on the console *)

\* C19: whenever the 'Finalize Gameweek' button can be clicked for the selected
\* gameweek, the statistics on display were fetched for that gameweek, its
\* match list is not empty, and all its matches are completed.
C19_FinalizeOnlyWhenMatchesCompleted ==
    (console.mounted /\ FinalizeEnabled)
        => /\ console.gameweekStats.gameweek = console.selectedGameweek
           /\ console.gameweekStats.total_matches > 0
           /\ \A m \in MatchesOf(console.selectedGameweek) : m.status = "completed"

\* the step is the return of a handler's remote call with an error
RemoteError ==
    /\ console.mounted
    /\ console.handler.step = "rpc"
    /\ console'.handler # console.handler
    /\ last'.error

\* C20: when the remote call of regenerateGameweeks, setGameweekStatus or
\* finalizeGameweek returns an error, the console shows an error toast, keeps
\* its gameweek list, its selected gameweek and its statistics, starts no
\* further call or fetch, and sets processing back to false.
C20_RemoteErrorLeavesConsole ==
    [][RemoteError
          => /\ console'.toast = "error"
             /\ console'.gameweeks = console.gameweeks
             /\ console'.selectedGameweek = console.selectedGameweek
             /\ console'.gameweekStats = console.gameweekStats
             /\ console'.handler = NoHandler
             /\ console'.fetching = console.fetching
             /\ console'.processing = FALSE]_vars

\* finalize_gameweek returned an error to a console that has a gameweek
\* selected and statistics on display
C20_Witness ==
    /\ console.mounted
    /\ last.op = "finalize_gameweek"
    /\ last.error
    /\ console.toast = "error"
    /\ ~console.processing
    /\ console.handler = NoHandler
    /\ HasSelectedGW
    /\ console.gameweekStats.present

----------------------------------------------------------------------------
(* The claims on the totals, the frame of finalize_gameweek and the         *)
(* determinism of the scoring engine                                        *)

RECURSIVE SumOfPoints(_)
\* sum of the points of the rows of S
SumOfPoints(S) ==
    IF S = {} THEN 0
    ELSE LET row == CHOOSE x \in S : TRUE IN row.points + SumOfPoints(S \ {row})

\* every league team's total_points is the sum of the points of its rows
TotalsAreSums ==
    \A t \in LeagueTeams(fantasy_teams) :
        fantasy_teams[t].total_points =
            SumOfPoints({row \in fantasy_team_gameweek_points : row.fantasy_team_id = t})

\* C26: the teams start with total_points equal to the sum of the points of
\* their (no) rows, and a successful finalize_gameweek(G) of a gameweek that
\* has no points row yet keeps every league team's total_points equal to the
\* sum of the points of its rows and sets its gameweek_points to the points
\* of its gameweek-G row.
C26_TotalsAreSumsOfRows ==
    /\ TotalsAreSums
    /\ [][(/\ FinalizeCalled
           /\ ~last'.error
           /\ TotalsAreSums
           /\ \A row \in fantasy_team_gameweek_points : row.gameweek # last'.gameweek)
              => /\ TotalsAreSums'
                 /\ \A t \in LeagueTeams(fantasy_teams) :
                       \E row \in fantasy_team_gameweek_points' :
                          /\ row.fantasy_team_id = t
                          /\ row.gameweek = last'.gameweek
                          /\ fantasy_teams'[t].gameweek_points = row.points]_vars

\* two gameweeks were finalized once each: a team's total is the sum of two
\* rows with points, and more than the points of the last gameweek
C26_Witness ==
    /\ Finalized
    /\ calls = 2
    /\ TotalsAreSums
    /\ \E t \in LeagueTeams(fantasy_teams) :
          /\ Cardinality({row \in fantasy_team_gameweek_points :
                             row.fantasy_team_id = t /\ row.points > 0}) = 2
          /\ fantasy_teams[t].total_points > fantasy_teams[t].gameweek_points

\* C27: a successful finalize_gameweek(G) leaves every points row of another
\* gameweek as it was, changes no row of rosters, gameweek_scores and
\* real_matches, and gives a team without a league no points row and no other
\* rank.
C27_FinalizeChangesOnlyItsGameweek ==
    [][(FinalizeCalled /\ ~last'.error)
          => /\ {row \in fantasy_team_gameweek_points' : row.gameweek # last'.gameweek}
                   = {row \in fantasy_team_gameweek_points : row.gameweek # last'.gameweek}
             /\ UNCHANGED <<rosters, gameweek_scores, real_matches>>
             /\ \A t \in DOMAIN fantasy_teams :
                   fantasy_teams[t].league_id = NULL
                       => /\ fantasy_teams'[t] = fantasy_teams[t]
                          /\ \A row \in fantasy_team_gameweek_points' :
                                row.fantasy_team_id # t]_vars

\* the second finalization was of another gameweek than the first, in a league
\* of two teams whose ranks in the two gameweeks differ, beside a team without
\* a league
C27_Witness ==
    /\ Finalized
    /\ calls = 2
    /\ \E a, b \in fantasy_team_gameweek_points :
          /\ a.fantasy_team_id = b.fantasy_team_id
          /\ a.gameweek # b.gameweek
          /\ a.rank_in_league # NullRank
          /\ b.rank_in_league # NullRank
          /\ a.rank_in_league # b.rank_in_league
    /\ \E t \in DOMAIN fantasy_teams : fantasy_teams[t].league_id = NULL

\* C28: for the same rosters and gameweek_scores, calculate_fantasy_team_points
\* can return one total only.
C28_CalculationDeterministic ==
    Calculated
        => Cardinality(calculate_fantasy_team_points(last.team, last.gameweek)) = 1

\* C29: when several starters of one position played zero minutes and one
\* bench player of that position is eligible, at most one of these starters
\* is given the points of the bench player; the others keep their own.
C29_BenchPlayerCountedOnce ==
    Calculated
        => \A pos \in {players[p] : p \in Players} :
              LET zero == {p \in ZeroMinuteStarters : players[p] = pos}
              IN  Cardinality(EligibleBench(last.team, last.gameweek, pos)) = 1
                     => \E p \in zero \cup {NULL} :
                           \A q \in zero \ {p} :
                              last.contrib[q] = PlayerPoints(q, last.gameweek)

----------------------------------------------------------------------------
(* The claims on what the status 'finalized' stands for and on the status   *)
(* transitions of the console                                               *)

\* C23: whenever a gameweek's status is 'finalized', every fantasy team that
\* belongs to a league has a fantasy_team_gameweek_points row for that
\* gameweek with a non-null rank_in_league.
C23_FinalizedHasRankedRows ==
    \A n \in DOMAIN gameweeks :
        gameweeks[n].status = "finalized"
            => \A t \in LeagueTeams(fantasy_teams) :
                  \E row \in PointsRows(t, n) : row.rank_in_league # NullRank

\* the statuses the lifecycle lets a gameweek of status s move to
LifecycleSuccessors(s) ==
    IF s = "upcoming" THEN {"active"}
    ELSE IF s = "active" THEN {"locked", "finalized", "upcoming"}
    ELSE IF s = "locked" THEN {"finalized", "upcoming"}
    ELSE {}

\* a step of the console starts a handler
HandlerStarts == console'.handler # console.handler /\ console'.handler.step = "rpc"

\* C25: every change a console action makes to the status of a gameweek
\* follows the lifecycle (upcoming to active; active to locked, finalized or
\* upcoming; locked to finalized or upcoming; none from finalized), a gameweek
\* becomes 'finalized' only when all its matches are completed, and no
\* handler starts while processing is true.
C25_ConsoleFollowsLifecycle ==
    [][/\ \A n \in DOMAIN gameweeks :
             (n \in DOMAIN gameweeks' /\ gameweeks'[n].status # gameweeks[n].status)
                 => /\ gameweeks'[n].status \in LifecycleSuccessors(gameweeks[n].status)
                    /\ gameweeks'[n].status = "finalized"
                           => \A m \in MatchesOf(n) : m.status = "completed"
       /\ HandlerStarts => ~console.processing]_vars

----------------------------------------------------------------------------
(* The General League: setup_general_league and create_default_fantasy_team, *)
(* which the trigger on_user_created runs for every row inserted into users  *)

\* users created in one behaviour
MaxUsers == 1001

\* VALUES ('General League', 1000, 0, ...): max_participants of the league
MaxParticipants == 1000

GeneralLeague == "General League"

\* a row of leagues
LeagueRow(max_participants, current_participants) ==
    [max_participants |-> max_participants,
     current_participants |-> current_participants]

\* setup_general_league() on the table lg: INSERT ... ON CONFLICT (name) DO
\* NOTHING, then the id of the row of that name
setup_general_league(lg) ==
    IF GeneralLeague \in DOMAIN lg THEN lg
    ELSE [l \in DOMAIN lg \cup {GeneralLeague} |->
             IF l = GeneralLeague THEN LeagueRow(MaxParticipants, 0) ELSE lg[l]]

\* UPDATE leagues SET current_participants = current_participants + 1
\* WHERE league_id = general_league_id
AddParticipant(lg, league_id) ==
    [lg EXCEPT ![league_id].current_participants = @ + 1]

\* create_default_fantasy_team(p_user_id) on the tables ft and lg, with the
\* fantasy_team_id the INSERT generates
create_default_fantasy_team(ft, lg, new_team_id) ==
    LET lg1 == setup_general_league(lg)
    IN  [ft |-> [t \in DOMAIN ft \cup {new_team_id} |->
                    IF t = new_team_id THEN NewTeam(GeneralLeague) ELSE ft[t]],
         lg |-> AddParticipant(lg1, GeneralLeague)]

\* INSERT INTO users: the trigger calls create_default_fantasy_team(NEW.user_id).
\* The ids the INSERT generates are numbered in the order of creation.
CreateUser ==
    /\ Cardinality(DOMAIN fantasy_teams) < MaxUsers
    /\ LET r == create_default_fantasy_team(fantasy_teams, leagues,
                                            Cardinality(DOMAIN fantasy_teams) + 1)
       IN  /\ fantasy_teams' = r.ft
           /\ leagues' = r.lg
    /\ last' = Call("create_default_fantasy_team", NULL, 0,
                    Cardinality(DOMAIN fantasy_teams) + 1, FALSE, <<>>)
    /\ UNCHANGED <<rosters, gameweek_scores, fantasy_team_gameweek_points, gameweeks,
                   calls, real_matches, gameweeks_timed, now, console, hook, sessions>>

\* the tables after the migration, which ends with SELECT setup_general_league()
InitLeague ==
    /\ rosters = {}
    /\ gameweek_scores = {}
    /\ fantasy_teams = <<>>
    /\ fantasy_team_gameweek_points = {}
    /\ gameweeks = <<>>
    /\ real_matches = {}
    /\ last = NoCall
    /\ calls = 0
    /\ gameweeks_timed = <<>>
    /\ now = 0
    /\ console = NoConsole
    /\ leagues = setup_general_league(NoLeagues)
    /\ hook = NoHook
    /\ sessions = NoSessions

NextLeague == CreateUser

SpecLeague == InitLeague /\ [][NextLeague]_vars

\* C24: the General League's current_participants never exceeds its
\* max_participants and equals the number of fantasy teams whose league is
\* the General League.
C24_GeneralLeagueCapped ==
    GeneralLeague \in DOMAIN leagues
        => /\ leagues[GeneralLeague].current_participants
                 <= leagues[GeneralLeague].max_participants
           /\ leagues[GeneralLeague].current_participants
                 = Cardinality({t \in DOMAIN fantasy_teams :
                                   fantasy_teams[t].league_id = GeneralLeague})

----------------------------------------------------------------------------
(* The useGameweek hook.  fetchGameweekStatus is one action per await: the  *)
(* return of update_gameweek_status, of the query on gameweeks and of       *)
(* transfers_allowed, whose response is in flight between the run of the   *)
(* procedure and its return.  The clock of the browser is the clock of the  *)
(* database.                                                                *)

\* fetchGameweekStatus calls in one behaviour
MaxFetches == 2

\* useState<GameweekStatus>({current: null, ..., transfersAllowed: true, ...});
\* 0 stands for null
InitialGameweekStatus ==
    [current |-> 0, next |-> 0, transfersAllowed |-> TRUE, timeUntilDeadline |-> 0,
     timeUntilStart |-> 0, timeUntilEnd |-> 0, isGameweekActive |-> FALSE]

\* a fetchGameweekStatus call at its first await.  The fields step and result
\* of a call that ended are not in the hook: they record how it ended
StartedFetch == [step |-> "update_gameweek_status", current |-> 0, next |-> 0,
                 result |-> FALSE]

\* the hook after the first render and its effect: the first
\* fetchGameweekStatus is on its way
MountedHook ==
    [mounted |-> TRUE, gameweekStatus |-> InitialGameweekStatus, loading |-> TRUE,
     fetches |-> <<StartedFetch>>]

\* the interval fires or refreshStatus is called
StartFetch ==
    /\ hook.mounted
    /\ Len(hook.fetches) < MaxFetches
    /\ hook' = [hook EXCEPT !.fetches = Append(@, StartedFetch)]
    /\ UNCHANGED <<tables, last, calls, real_matches, gameweeks_timed, now, console,
                   leagues, sessions>>

\* await supabase.rpc('update_gameweek_status') returns: what it returned is
\* not read, so the call goes on whether the procedure ran or not
FetchUpdateReturns(i) ==
    /\ hook.mounted
    /\ i \in DOMAIN hook.fetches
    /\ hook.fetches[i].step = "update_gameweek_status"
    /\ hook' = [hook EXCEPT !.fetches[i].step = "gameweeks"]
    /\ \/ /\ gameweeks_timed' = update_gameweek_status(gameweeks_timed, now)
          /\ last' = [Call("update_gameweek_status", NULL, 0, 0, FALSE, <<>>)
                      EXCEPT !.arg = now]
       \/ UNCHANGED <<gameweeks_timed, last>>
    /\ UNCHANGED <<tables, calls, real_matches, now, console, leagues, sessions>>

\* catch { console.error(...) } finally { setLoading(false) }
FetchFailed(h, i) == [h EXCEPT !.fetches[i].step = "failed", !.loading = FALSE]

\* gameweeks?.find(gw => gw.is_current) || null on the rows in the order of
\* gameweek_number
FindCurrent(gw) ==
    IF \E n \in FlaggedGameweeks(gw) : gw[n].is_current
    THEN Min({n \in FlaggedGameweeks(gw) : gw[n].is_current}) ELSE 0

\* gameweeks?.find(gw => gw.is_next) || null
FindNext(gw) ==
    IF \E n \in FlaggedGameweeks(gw) : gw[n].is_next
    THEN Min({n \in FlaggedGameweeks(gw) : gw[n].is_next}) ELSE 0

\* the query on gameweeks returns: if (error) throw error
FetchGameweeksReturns(i) ==
    /\ hook.mounted
    /\ i \in DOMAIN hook.fetches
    /\ hook.fetches[i].step = "gameweeks"
    /\ \/ hook' = FetchFailed(hook, i)
       \/ hook' = [hook EXCEPT !.fetches[i].step = "transfers_allowed",
                               !.fetches[i].current = FindCurrent(gameweeks_timed),
                               !.fetches[i].next = FindNext(gameweeks_timed)]
    /\ UNCHANGED <<tables, last, calls, real_matches, gameweeks_timed, now, console,
                   leagues, sessions>>

\* x > 0 ? x : null
PositiveOrNull(x) == IF x > 0 THEN x ELSE 0

\* the object passed to setGameweekStatus by a call that read the gameweeks
\* current and next, got transfersAllowed and finds the rows in gw at time t
FetchedGameweekStatus(gw, current, next, transfersAllowed, t) ==
    LET relevantGameweek == IF current # 0 THEN current ELSE next
    IN  IF relevantGameweek = 0
        THEN [InitialGameweekStatus EXCEPT !.transfersAllowed = transfersAllowed]
        ELSE [current |-> current, next |-> next,
              transfersAllowed |-> transfersAllowed,
              timeUntilDeadline |-> PositiveOrNull(gw[relevantGameweek].deadline_time - t),
              timeUntilStart |-> PositiveOrNull(gw[relevantGameweek].start_time - t),
              timeUntilEnd |-> PositiveOrNull(gw[relevantGameweek].end_time - t),
              isGameweekActive |-> (t >= gw[relevantGameweek].start_time
                                      /\ t <= gw[relevantGameweek].end_time)]

\* the request of supabase.rpc('transfers_allowed') reaches the database: the
\* procedure runs and its result is on its way back, or the request fails
TransfersAllowedRuns(i) ==
    /\ hook.mounted
    /\ i \in DOMAIN hook.fetches
    /\ hook.fetches[i].step = "transfers_allowed"
    /\ \/ /\ hook' = [hook EXCEPT !.fetches[i].step = "error"]
          /\ last' = last
       \/ /\ hook' = [hook EXCEPT
                         !.fetches[i].step = "data",
                         !.fetches[i].result = transfers_allowed(gameweeks_timed, now)]
          /\ last' = [Call("transfers_allowed", NULL, 0, 0, FALSE, <<>>)
                      EXCEPT !.result = transfers_allowed(gameweeks_timed, now),
                             !.arg = now]
    /\ UNCHANGED <<tables, calls, real_matches, gameweeks_timed, now, console,
                   leagues, sessions>>

\* await supabase.rpc('transfers_allowed') returns: if (transferError) throw
\* transferError, else setGameweekStatus({...})
FetchTransfersReturns(i) ==
    /\ hook.mounted
    /\ i \in DOMAIN hook.fetches
    /\ hook.fetches[i].step \in {"error", "data"}
    /\ hook' = IF hook.fetches[i].step = "error" THEN FetchFailed(hook, i)
               ELSE [hook EXCEPT
                        !.fetches[i].step = "done",
                        !.loading = FALSE,
                        !.gameweekStatus =
                            FetchedGameweekStatus(gameweeks_timed,
                                hook.fetches[i].current, hook.fetches[i].next,
                                hook.fetches[i].result, now)]
    /\ UNCHANGED <<tables, last, calls, real_matches, gameweeks_timed, now, console,
                   leagues, sessions>>

InitHook ==
    /\ rosters = {}
    /\ gameweek_scores = {}
    /\ fantasy_teams = <<>>
    /\ fantasy_team_gameweek_points = {}
    /\ gameweeks = <<>>
    /\ real_matches = {}
    /\ last = NoCall
    /\ calls = 0
    /\ gameweeks_timed \in TimedInputs
    /\ now = 0
    /\ console = NoConsole
    /\ leagues = NoLeagues
    /\ hook = MountedHook
    /\ sessions = NoSessions

NextHook ==
    \/ StartFetch
    \/ \E i \in 1..MaxFetches : FetchUpdateReturns(i)
    \/ \E i \in 1..MaxFetches : FetchGameweeksReturns(i)
    \/ \E i \in 1..MaxFetches : TransfersAllowedRuns(i)
    \/ \E i \in 1..MaxFetches : FetchTransfersReturns(i)
    \/ Tick

SpecHook == InitHook /\ [][NextHook]_vars

\* C30: the hook reports transfersAllowed = true only if the
\* fetchGameweekStatus call started last has completed and its
\* transfers_allowed call returned true.
C30_TransfersAllowedFromLatestFetch ==
    (hook.mounted /\ hook.gameweekStatus.transfersAllowed)
        => /\ hook.fetches[Len(hook.fetches)].step = "done"
           /\ hook.fetches[Len(hook.fetches)].result

----------------------------------------------------------------------------
(* finalize_gameweek statement by statement.  SELECT finalize_gameweek(g)   *)
(* is one statement of a session and runs in one transaction: what it       *)
(* writes is seen by the other sessions when it commits, and not at all     *)
(* when it fails.  A row it has written is locked until then, and a         *)
(* statement of another session that writes the row, or inserts a row of    *)
(* the same key, waits.  The table variables hold the committed rows.       *)

Sessions == {"s1", "s2"}

\* a session that has not called finalize_gameweek.  teams and league_ids are
\* the rows the two loops have still to visit; ft, ftgp and gw are the rows of
\* fantasy_teams, fantasy_team_gameweek_points and gameweeks the transaction
\* has written; overlapped, not in the database, records the sessions whose
\* call was running when this one began
IdleSession ==
    [pc |-> "idle", gameweek |-> 0, teams |-> {}, league_ids |-> {},
     ft |-> <<>>, ftgp |-> {}, gw |-> <<>>, overlapped |-> {}]

\* the call of the session is running
Running(x) == x.pc \in {"teams", "leagues", "mark", "commit"}

\* the session has written the points row
Written(x, row) == row.fantasy_team_id \in DOMAIN x.ft /\ row.gameweek = x.gameweek

\* the tables as the statements of session x see them: the committed rows and
\* the rows the transaction has written itself
View(x) ==
    [ft |-> [t \in DOMAIN fantasy_teams |->
                IF t \in DOMAIN x.ft THEN x.ft[t] ELSE fantasy_teams[t]],
     ftgp |-> {row \in fantasy_team_gameweek_points : ~Written(x, row)} \cup x.ftgp,
     gw |-> [n \in DOMAIN gameweeks |->
                IF n \in DOMAIN x.gw THEN x.gw[n] ELSE gameweeks[n]]]

\* the rows of the tables d that session x has written once it has written
\* the rows of the teams in written as well
Writes(x, d, written) ==
    [x EXCEPT !.ft = [t \in DOMAIN x.ft \cup written |-> d.ft[t]],
              !.ftgp = {row \in d.ftgp :
                           /\ row.fantasy_team_id \in DOMAIN x.ft \cup written
                           /\ row.gameweek = x.gameweek}]

\* the tables d a statement made of the tables v, the row it inserted given
\* the next value of the sequence of id, which all sessions draw from
WithNextId(v, d) ==
    LET ids == {row.id : row \in fantasy_team_gameweek_points
                                   \cup UNION {sessions[o].ftgp : o \in Sessions}}
        isNew(row) == ~\E old \in v.ftgp :
                          /\ old.fantasy_team_id = row.fantasy_team_id
                          /\ old.gameweek = row.gameweek
    IN  [d EXCEPT !.ftgp = {IF isNew(row) THEN [row EXCEPT !.id = Max(ids \cup {0}) + 1]
                            ELSE row : row \in d.ftgp}]

\* a loop that has no row left to visit ends: the loop over the leagues opens
\* its query on the tables d, the UPDATE of gameweeks comes after it
EndLoops(x, d) ==
    LET x1 == IF x.pc = "teams" /\ x.teams = {}
              THEN [x EXCEPT !.pc = "leagues",
                             !.league_ids = {d.ft[t].league_id : t \in LeagueTeams(d.ft)}]
              ELSE x
    IN  IF x1.pc = "leagues" /\ x1.league_ids = {} THEN [x1 EXCEPT !.pc = "mark"]
        ELSE x1

\* another session whose call is running holds the lock of the row of team t
TeamLocked(s, t) ==
    \E o \in Sessions \ {s} : Running(sessions[o]) /\ t \in DOMAIN sessions[o].ft

\* another session whose call is running holds the lock of the row of gameweek g
GameweekLocked(s, g) ==
    \E o \in Sessions \ {s} : Running(sessions[o]) /\ g \in DOMAIN sessions[o].gw

\* the tables after the transaction failed, with the writes of the
\* transaction left in place
RolledBack_partial(x) == View(x)

\* the tables after the transaction of session x failed
RolledBack(x) == Db

\* the tables after the transaction of session x committed
Committed(x) == View(x)

\* session s sends SELECT finalize_gameweek(g): the existence check, and the
\* query of the loop over the teams
SessionBegins(s, g) ==
    /\ sessions[s].pc = "idle"
    /\ IF GameweekExists(g)
       THEN /\ sessions' =
                  [sessions EXCEPT ![s] =
                      EndLoops([IdleSession EXCEPT
                                   !.pc = "teams", !.gameweek = g,
                                   !.teams = LeagueTeams(fantasy_teams),
                                   !.overlapped = {o \in Sessions \ {s} :
                                                      Running(sessions[o])}],
                               Db)]
            /\ UNCHANGED <<last, calls>>
       ELSE /\ sessions' = [sessions EXCEPT ![s].pc = "aborted", ![s].gameweek = g]
            /\ last' = Call("finalize_gameweek", NULL, g, 0, TRUE, <<>>)
            /\ calls' = calls + 1
    /\ UNCHANGED <<tables, real_matches, gameweeks_timed, now, console, leagues, hook>>

\* one iteration of the loop over the teams in session s
SessionTeamStep(s, t) ==
    /\ sessions[s].pc = "teams"
    /\ t \in sessions[s].teams
    /\ ~TeamLocked(s, t)
    /\ \E team_points \in calculate_fantasy_team_points(t, sessions[s].gameweek) :
          LET d == WithNextId(View(sessions[s]),
                              TeamStep(View(sessions[s]), t, sessions[s].gameweek,
                                       team_points))
              x == [Writes(sessions[s], d, {t}) EXCEPT !.teams = @ \ {t}]
          IN  sessions' = [sessions EXCEPT ![s] = EndLoops(x, d)]
    /\ UNCHANGED <<tables, last, calls, real_matches, gameweeks_timed, now, console,
                   leagues, hook>>

\* one iteration of the loop over the leagues in session s
SessionLeagueStep(s, league_id) ==
    /\ sessions[s].pc = "leagues"
    /\ league_id \in sessions[s].league_ids
    /\ \A t \in DOMAIN fantasy_teams :
          fantasy_teams[t].league_id = league_id => ~TeamLocked(s, t)
    /\ \E d \in LeagueStep(View(sessions[s]), league_id, sessions[s].gameweek) :
          LET written == {t \in DOMAIN d.ft : d.ft[t].league_id = league_id}
              x == [Writes(sessions[s], d, written) EXCEPT !.league_ids = @ \ {league_id}]
          IN  sessions' = [sessions EXCEPT ![s] = EndLoops(x, d)]
    /\ UNCHANGED <<tables, last, calls, real_matches, gameweeks_timed, now, console,
                   leagues, hook>>

\* the UPDATE of gameweeks in session s
SessionMarks(s) ==
    /\ sessions[s].pc = "mark"
    /\ ~GameweekLocked(s, sessions[s].gameweek)
    /\ LET d == MarkFinalized(View(sessions[s]), sessions[s].gameweek)
       IN  sessions' = [sessions EXCEPT
                           ![s].pc = "commit",
                           ![s].gw = [n \in {sessions[s].gameweek} |-> d.gw[n]]]
    /\ UNCHANGED <<tables, last, calls, real_matches, gameweeks_timed, now, console,
                   leagues, hook>>

\* the function returns and the transaction of session s commits
SessionCommits(s) ==
    /\ sessions[s].pc = "commit"
    /\ fantasy_teams' = Committed(sessions[s]).ft
    /\ fantasy_team_gameweek_points' = Committed(sessions[s]).ftgp
    /\ gameweeks' = Committed(sessions[s]).gw
    /\ sessions' = [sessions EXCEPT ![s].pc = "committed", ![s].ft = <<>>,
                                    ![s].ftgp = {}, ![s].gw = <<>>]
    /\ last' = Call("finalize_gameweek", NULL, sessions[s].gameweek, 0, FALSE, <<>>)
    /\ calls' = calls + 1
    /\ UNCHANGED <<rosters, gameweek_scores, real_matches, gameweeks_timed, now,
                   console, leagues, hook>>

\* a statement of session s fails (a deadlock the database breaks, a
\* cancelled statement, a lost connection): the transaction is rolled back
SessionAborts(s) ==
    /\ Running(sessions[s])
    /\ fantasy_teams' = RolledBack(sessions[s]).ft
    /\ fantasy_team_gameweek_points' = RolledBack(sessions[s]).ftgp
    /\ gameweeks' = RolledBack(sessions[s]).gw
    /\ sessions' = [sessions EXCEPT ![s].pc = "aborted", ![s].ft = <<>>,
                                    ![s].ftgp = {}, ![s].gw = <<>>]
    /\ last' = Call("finalize_gameweek", NULL, sessions[s].gameweek, 0, TRUE, <<>>)
    /\ calls' = calls + 1
    /\ UNCHANGED <<rosters, gameweek_scores, real_matches, gameweeks_timed, now,
                   console, leagues, hook>>

\* gameweek 1: p1 scored 5, p2 scored 5 or 8; gameweek 2: p1 scored 8, p2 and
\* p3 scored 5
SessionScores ==
    {{ScoreRow("p1", 1, 90, 5), ScoreRow("p2", 1, 90, points), ScoreRow("p1", 2, 90, 8),
      ScoreRow("p2", 2, 90, 5), ScoreRow("p3", 2, 90, 5)} : points \in {5, 8}}

\* t1 is in league L1, t2 in L1 or L2, t3 in no league
SessionTeams ==
    {[t \in Teams |-> NewTeam(IF t = "t1" THEN "L1" ELSE IF t = "t2" THEN l2 ELSE NULL)]
     : l2 \in Leagues}

\* the rosters of the finalizer's specification, no gameweek finalized yet,
\* two sessions connected
InitSessions ==
    /\ rosters = MainRosters
    /\ gameweek_scores \in SessionScores
    /\ fantasy_teams \in SessionTeams
    /\ fantasy_team_gameweek_points = {}
    /\ gameweeks = [g \in 1..(MaxGameweek - 1) |-> GameweekRow(g, g, "upcoming")]
    /\ last = NoCall
    /\ calls = 0
    /\ real_matches = {}
    /\ gameweeks_timed = <<>>
    /\ now = 0
    /\ console = NoConsole
    /\ leagues = NoLeagues
    /\ hook = NoHook
    /\ sessions = [s \in Sessions |-> IdleSession]

NextSessions ==
    \/ \E s \in Sessions, g \in GameweekNumbers : SessionBegins(s, g)
    \/ \E s \in Sessions, t \in Teams : SessionTeamStep(s, t)
    \/ \E s \in Sessions, l \in Leagues : SessionLeagueStep(s, l)
    \/ \E s \in Sessions : SessionMarks(s)
    \/ \E s \in Sessions : SessionCommits(s)
    \/ \E s \in Sessions : SessionAborts(s)

SpecSessions == InitSessions /\ [][NextSessions]_vars

----------------------------------------------------------------------------
(* The claims on concurrent finalizations *)

\* what the other sessions can read holds no partial result: a league team
\* with a points row of a gameweek has its rank_in_league in it, and the
\* gameweek is marked finalized
NoPartialResult ==
    \A t \in LeagueTeams(fantasy_teams), row \in fantasy_team_gameweek_points :
        row.fantasy_team_id = t
            => /\ row.rank_in_league # NullRank
               /\ row.gameweek \in DOMAIN gameweeks
               /\ gameweeks[row.gameweek].status = "finalized"

\* the tables d without the generated ids of the points rows, which follow
\* the order of the inserts
WithoutIds(d) == [d EXCEPT !.ftgp = {[row EXCEPT !.id = 0] : row \in d.ftgp}]

\* the call of a session ends in this step with an error
SessionFails ==
    \E s \in Sessions : sessions[s].pc # "aborted" /\ sessions'[s].pc = "aborted"

\* C21: finalize_gameweek is atomic.  A call that fails at any step leaves
\* all tables as they were; the committed tables, which are what any other
\* reader sees, change only in the step in which a call commits, and then to
\* the result of one complete finalization of its gameweek (up to the
\* generated ids of the rows); they never hold a partial result.
C21_FinalizeAtomic ==
    [][/\ SessionFails => (last'.error /\ tables' = tables)
       /\ tables' # tables
             => /\ ~last'.error
                /\ last'.op = "finalize_gameweek"
                /\ WithoutIds(Db') \in {WithoutIds(d) : d \in finalize_gameweek(last'.gameweek)}
                /\ UNCHANGED <<rosters, gameweek_scores>>
       /\ NoPartialResult']_vars

\* a call failed in the middle of its loop over the teams after the call of
\* the other session, which overlapped it, committed the results of a
\* gameweek
C21_Witness ==
    \E s \in Sessions, o \in Sessions :
        /\ sessions[s].pc = "aborted"
        /\ sessions[s].teams # {}
        /\ sessions[s].teams # LeagueTeams(fantasy_teams)
        /\ sessions[o].pc = "committed"
        /\ o \in sessions[s].overlapped \/ s \in sessions[o].overlapped
        /\ fantasy_team_gameweek_points # {}
        /\ last.error

\* the calls of sessions a and b ran at the same time
Concurrent(a, b) ==
    a # b /\ (a \in sessions[b].overlapped \/ b \in sessions[a].overlapped)

\* C22: when two finalize_gameweek(G) calls that ran concurrently have both
\* committed, for a gameweek G not finalized before and teams that started
\* with total_points 0, each league team's total_points is its gameweek-G
\* points, added once.
C22_ConcurrentFinalizeCountsOnce ==
    \A a \in Sessions, b \in Sessions :
        (/\ Concurrent(a, b)
         /\ sessions[a].pc = "committed"
         /\ sessions[b].pc = "committed"
         /\ sessions[a].gameweek = sessions[b].gameweek)
            => \A t \in LeagueTeams(fantasy_teams) :
                  \E row \in PointsRows(t, sessions[a].gameweek) :
                      fantasy_teams[t].total_points = row.points

====
